---- MODULE Spec2Model ----
(***************************************************************************)
(* Bad Weather Mount Tester: the simulation clock, the trajectory set-up   *)
(* and the status read model of SimulatorDisplay (display.py), driven      *)
(* through the handlers of WebServer (server.py) and the callbacks of      *)
(* Application (app.py).                                                   *)
(*                                                                         *)
(* Numbers.  Python floats are modelled as decimal fixed-point numbers     *)
(* with Digits fractional digits: a float f is the integer f * Scale.      *)
(* Sums and differences are exact; every quotient and every product is     *)
(* rounded to the nearest representable value, ties to even, as IEEE       *)
(* arithmetic rounds them.  Pixel coordinates that the code keeps as int   *)
(* stay plain integers.                                                    *)
(***************************************************************************)
EXTENDS Integers, Sequences, FiniteSets, TLC

\* Fractional decimal digits kept by the modelled floats.
Digits == 2

Scale == 10 ^ Digits

\* Optional[...] values: None, or a one-element tuple holding the value.
None == <<>>

Some(v) == <<v>>

\* n / d rounded to the nearest integer, ties to even (d # 0).
RoundDiv(n, d) ==
    LET nn == IF d < 0 THEN 0 - n ELSE n
        dd == IF d < 0 THEN 0 - d ELSE d
        q == nn \div dd
        r == nn % dd
    IN  IF 2 * r < dd THEN q
        ELSE IF 2 * r > dd THEN q + 1
        ELSE IF q % 2 = 0 THEN q ELSE q + 1

\* a * b of two scaled floats: (a \div Scale) * b is whole, the rest is rounded.
Mul(a, b) == (a \div Scale) * b + RoundDiv((a % Scale) * b, Scale)

\* a / b of two scaled floats (b # 0).
Div(a, b) == RoundDiv(a * Scale, b)

\* Python round(v, 1) of a scaled float.
Round1(v) == RoundDiv(v * 10, Scale) * (Scale \div 10)

\* Python round(v, 4): the modelled floats carry fewer than 4 digits.
Round4(v) == v

Max2(a, b) == IF a >= b THEN a ELSE b

Min2(a, b) == IF a <= b THEN a ELSE b

\* Python int(v) of a scaled float v >= 0.
IntPart(v) == v \div Scale

\* A pixel coordinate (int) as a float.
ToFloat(px) == px * Scale

(***************************************************************************)
(* SimulatorDisplay (display.py).  A display is a record of the fields of  *)
(* the object; every method is an operator from the display (and the       *)
(* value t that time.time() returns during the call) to the display the    *)
(* call leaves.                                                            *)
(***************************************************************************)

\* Grid size of the measured-velocity lookup table (np.linspace(..., 1000)).
LookupSize == 4

\* sorted(points, key=lambda p: p[0]): a stable insertion sort by x.
RECURSIVE InsertByX(_, _)
InsertByX(sorted, p) ==
    IF sorted = <<>> THEN <<p>>
    ELSE IF sorted[Len(sorted)][1] <= p[1] THEN Append(sorted, p)
    ELSE Append(InsertByX(SubSeq(sorted, 1, Len(sorted) - 1), p), sorted[Len(sorted)])

RECURSIVE SortByX(_)
SortByX(points) ==
    IF points = <<>> THEN <<>>
    ELSE InsertByX(SortByX(SubSeq(points, 1, Len(points) - 1)), points[Len(points)])

SimulatorDisplay_init(audio) ==
    [ mode |-> "WAITING",
      calibration_points |-> <<>>,
      calibration_selected_index |-> -1,
      calibration_ellipse |-> None,
      simulation_running |-> FALSE,
      simulation_start_time |-> None,
      simulation_elapsed |-> 0,
      simulation_x_start |-> 0,
      simulation_x_end |-> 0,
      simulation_pixels_per_second |-> Scale,
      simulation_lookup_xs |-> None,
      simulation_lookup_ts |-> None,
      simulation_lookup_vs |-> None,
      simulation_total_time |-> 0,
      beep_sound |-> audio,
      beep_60s_triggered |-> FALSE,
      beep_30s_triggered |-> FALSE,
      countdown_last_second |-> -1,
      beep_end_triggered |-> FALSE ]

reset_beep_state(d) ==
    [d EXCEPT !.beep_60s_triggered = FALSE,
              !.beep_30s_triggered = FALSE,
              !.countdown_last_second = -1,
              !.beep_end_triggered = FALSE]

set_mode(d, mode) == [d EXCEPT !.mode = mode]

set_calibration_points(d, points) ==
    [d EXCEPT !.calibration_points = SortByX(points)]

clear_calibration_points(d) ==
    [d EXCEPT !.calibration_points = <<>>,
              !.calibration_selected_index = -1,
              !.calibration_ellipse = None]

set_calibration_ellipse(d, ellipse) ==
    [d EXCEPT !.calibration_ellipse = ellipse]

\* np.polyval(np.polyfit(xs, vs, 2), x) for three samples at distinct xs: the
\* parabola through the samples, evaluated at x.
PolyFitEval(profile, x) ==
    LET X(i) == profile[i][1]
        V(i) == profile[i][2]
        L(i, j, k) == Mul(Div(x - X(j), X(i) - X(j)), Div(x - X(k), X(i) - X(k)))
    IN  Mul(V(1), L(1, 2, 3)) + Mul(V(2), L(2, 1, 3)) + Mul(V(3), L(3, 1, 2))

\* np.linspace(float(x_start), float(x_end), LookupSize)
Linspace(x_start, x_end) ==
    [k \in 1..LookupSize |->
        ToFloat(x_start)
        + RoundDiv((k - 1) * ToFloat(x_end - x_start), LookupSize - 1)]

\* np.concatenate(([0.0], np.cumsum(dt)))
RECURSIVE CumSum(_, _)
CumSum(dt, k) == IF k = 0 THEN 0 ELSE CumSum(dt, k - 1) + dt[k]

\* np.interp(x, xp, fp) for increasing xp
Interp(x, xp, fp) ==
    LET n == Len(xp)
    IN  IF x <= xp[1] THEN fp[1]
        ELSE IF x >= xp[n] THEN fp[n]
        ELSE LET j == CHOOSE i \in 1..(n - 1) : xp[i] <= x /\ x < xp[i + 1]
                 slope == Div(fp[j + 1] - fp[j], xp[j + 1] - xp[j])
             IN  Mul(slope, x - xp[j]) + fp[j]

\* setup_simulation without the reset of the clock fields (lines 294-296).
setup_simulation_keeps_clock(d, x_start, x_end, pixels_per_second, velocity_profile) ==
    LET d1 == reset_beep_state(
                 [d EXCEPT !.simulation_x_start = x_start,
                           !.simulation_x_end = x_end,
                           !.simulation_pixels_per_second = pixels_per_second])
    IN  IF velocity_profile # None /\ Len(velocity_profile) >= 3
        THEN LET lookup_xs == Linspace(x_start, x_end)
                 lookup_vs == [k \in 1..LookupSize |->
                                 Max2(PolyFitEval(velocity_profile, lookup_xs[k]),
                                      RoundDiv(Scale, 100))]
                 dt == [k \in 1..(LookupSize - 1) |->
                          Div(lookup_xs[k + 1] - lookup_xs[k],
                              RoundDiv(lookup_vs[k] + lookup_vs[k + 1], 2))]
                 lookup_ts == [k \in 1..LookupSize |-> CumSum(dt, k - 1)]
             IN  [d1 EXCEPT !.simulation_lookup_xs = lookup_xs,
                            !.simulation_lookup_ts = lookup_ts,
                            !.simulation_lookup_vs = lookup_vs,
                            !.simulation_total_time = lookup_ts[LookupSize]]
        ELSE [d1 EXCEPT !.simulation_lookup_xs = None,
                        !.simulation_lookup_ts = None,
                        !.simulation_lookup_vs = None,
                        !.simulation_total_time = 0]

\* setup_simulation without the 0.01 px/s floor of the fitted velocities (line 308).
setup_simulation_no_floor(d, x_start, x_end, pixels_per_second, velocity_profile) ==
    LET d1 == reset_beep_state(
                 [d EXCEPT !.simulation_x_start = x_start,
                           !.simulation_x_end = x_end,
                           !.simulation_pixels_per_second = pixels_per_second,
                           !.simulation_running = FALSE,
                           !.simulation_start_time = None,
                           !.simulation_elapsed = 0])
    IN  IF velocity_profile # None /\ Len(velocity_profile) >= 3
        THEN LET lookup_xs == Linspace(x_start, x_end)
                 lookup_vs == [k \in 1..LookupSize |->
                                 PolyFitEval(velocity_profile, lookup_xs[k])]
                 dt == [k \in 1..(LookupSize - 1) |->
                          Div(lookup_xs[k + 1] - lookup_xs[k],
                              RoundDiv(lookup_vs[k] + lookup_vs[k + 1], 2))]
                 lookup_ts == [k \in 1..LookupSize |-> CumSum(dt, k - 1)]
             IN  [d1 EXCEPT !.simulation_lookup_xs = lookup_xs,
                            !.simulation_lookup_ts = lookup_ts,
                            !.simulation_lookup_vs = lookup_vs,
                            !.simulation_total_time = lookup_ts[LookupSize]]
        ELSE [d1 EXCEPT !.simulation_lookup_xs = None,
                        !.simulation_lookup_ts = None,
                        !.simulation_lookup_vs = None,
                        !.simulation_total_time = 0]

setup_simulation(d, x_start, x_end, pixels_per_second, velocity_profile) ==
    LET d1 == reset_beep_state(
                 [d EXCEPT !.simulation_x_start = x_start,
                           !.simulation_x_end = x_end,
                           !.simulation_pixels_per_second = pixels_per_second,
                           !.simulation_running = FALSE,
                           !.simulation_start_time = None,
                           !.simulation_elapsed = 0])
    IN  IF velocity_profile # None /\ Len(velocity_profile) >= 3
        THEN LET lookup_xs == Linspace(x_start, x_end)
                 lookup_vs == [k \in 1..LookupSize |->
                                 Max2(PolyFitEval(velocity_profile, lookup_xs[k]),
                                      RoundDiv(Scale, 100))]
                 dt == [k \in 1..(LookupSize - 1) |->
                          Div(lookup_xs[k + 1] - lookup_xs[k],
                              RoundDiv(lookup_vs[k] + lookup_vs[k + 1], 2))]
                 lookup_ts == [k \in 1..LookupSize |-> CumSum(dt, k - 1)]
             IN  [d1 EXCEPT !.simulation_lookup_xs = lookup_xs,
                            !.simulation_lookup_ts = lookup_ts,
                            !.simulation_lookup_vs = lookup_vs,
                            !.simulation_total_time = lookup_ts[LookupSize]]
        ELSE [d1 EXCEPT !.simulation_lookup_xs = None,
                        !.simulation_lookup_ts = None,
                        !.simulation_lookup_vs = None,
                        !.simulation_total_time = 0]

\* start_simulation without its guard: a running clock is started again.
start_simulation_unguarded(d, t) ==
    [d EXCEPT !.simulation_running = TRUE,
              !.simulation_start_time = Some(t - d.simulation_elapsed)]

start_simulation(d, t) ==
    IF ~d.simulation_running
    THEN [d EXCEPT !.simulation_running = TRUE,
                   !.simulation_start_time = Some(t - d.simulation_elapsed)]
    ELSE d

\* stop_simulation that stops the clock and does not store the elapsed time.
stop_simulation_forgetful(d, t) == [d EXCEPT !.simulation_running = FALSE]

stop_simulation(d, t) ==
    LET d1 == IF d.simulation_running /\ d.simulation_start_time # None
              THEN [d EXCEPT !.simulation_elapsed = t - d.simulation_start_time[1]]
              ELSE d
    IN  [d1 EXCEPT !.simulation_running = FALSE]

\* reset_simulation that also drops the lookup table.
reset_simulation_drops_table(d) ==
    reset_beep_state([d EXCEPT !.simulation_running = FALSE,
                               !.simulation_start_time = None,
                               !.simulation_elapsed = 0,
                               !.simulation_lookup_xs = None,
                               !.simulation_lookup_ts = None,
                               !.simulation_lookup_vs = None,
                               !.simulation_total_time = 0])

\* reset_simulation without the call of reset_beep_state.
reset_simulation_keeps_beeps(d) ==
    [d EXCEPT !.simulation_running = FALSE,
              !.simulation_start_time = None,
              !.simulation_elapsed = 0]

reset_simulation(d) ==
    reset_beep_state([d EXCEPT !.simulation_running = FALSE,
                               !.simulation_start_time = None,
                               !.simulation_elapsed = 0])

\* _get_total_time that divides whenever the velocity is not zero.
_get_total_time_any_sign(d) ==
    IF d.simulation_lookup_ts # None
    THEN d.simulation_total_time
    ELSE IF d.simulation_pixels_per_second # 0
         THEN Div(ToFloat(d.simulation_x_end - d.simulation_x_start),
                  d.simulation_pixels_per_second)
         ELSE 0

_get_total_time(d) ==
    IF d.simulation_lookup_ts # None
    THEN d.simulation_total_time
    ELSE IF d.simulation_pixels_per_second > 0
         THEN Div(ToFloat(d.simulation_x_end - d.simulation_x_start),
                  d.simulation_pixels_per_second)
         ELSE 0

_x_from_elapsed(d, elapsed) ==
    IF d.simulation_lookup_ts # None /\ d.simulation_lookup_xs # None
    THEN Interp(elapsed, d.simulation_lookup_ts, d.simulation_lookup_xs)
    ELSE ToFloat(d.simulation_x_start) + Mul(elapsed, d.simulation_pixels_per_second)

_velocity_from_elapsed(d, elapsed) ==
    IF /\ d.simulation_lookup_ts # None
       /\ d.simulation_lookup_xs # None
       /\ d.simulation_lookup_vs # None
    THEN Interp(elapsed, d.simulation_lookup_ts, d.simulation_lookup_vs)
    ELSE d.simulation_pixels_per_second

skip_simulation(d, seconds, t) ==
    LET total_time == _get_total_time(d)
    IN  IF d.simulation_running /\ d.simulation_start_time # None
        THEN LET start == d.simulation_start_time[1] - seconds
                 elapsed == t - start
             IN  [d EXCEPT !.simulation_start_time =
                     IF elapsed < 0 THEN Some(t)
                     ELSE IF elapsed > total_time THEN Some(t - total_time)
                     ELSE Some(start)]
        ELSE LET elapsed == d.simulation_elapsed + seconds
             IN  [d EXCEPT !.simulation_elapsed =
                     IF elapsed < 0 THEN 0
                     ELSE IF elapsed > total_time THEN total_time
                     ELSE elapsed]

\* seek_simulation without the clamp into [0, total_time].
seek_simulation_unclamped(d, elapsed_seconds, t) ==
    IF d.simulation_running /\ d.simulation_start_time # None
    THEN [d EXCEPT !.simulation_start_time = Some(t - elapsed_seconds)]
    ELSE [d EXCEPT !.simulation_elapsed = elapsed_seconds]

seek_simulation(d, elapsed_seconds, t) ==
    LET total_time == _get_total_time(d)
        clamped == Max2(0, Min2(elapsed_seconds, total_time))
    IN  IF d.simulation_running /\ d.simulation_start_time # None
        THEN [d EXCEPT !.simulation_start_time = Some(t - clamped)]
        ELSE [d EXCEPT !.simulation_elapsed = clamped]

\* get_simulation_status whose early return reports the clock's running flag.
get_simulation_status_running(d, t) ==
    IF d.calibration_ellipse = None \/ d.simulation_x_start >= d.simulation_x_end
    THEN [ display |-> d,
           status |-> [ running |-> d.simulation_running,
                        progress |-> 0,
                        elapsed_seconds |-> 0,
                        remaining_seconds |-> 0,
                        total_seconds |-> None,
                        current_x |-> ToFloat(d.simulation_x_start),
                        current_velocity |-> None,
                        complete |-> FALSE ] ]
    ELSE
        LET total_distance == d.simulation_x_end - d.simulation_x_start
            total_time == _get_total_time(d)
            elapsed == IF d.simulation_running /\ d.simulation_start_time # None
                       THEN t - d.simulation_start_time[1]
                       ELSE d.simulation_elapsed
            current_x == Min2(_x_from_elapsed(d, elapsed), ToFloat(d.simulation_x_end))
            current_velocity == _velocity_from_elapsed(d, elapsed)
            progress == IF total_distance > 0
                        THEN Div(current_x - ToFloat(d.simulation_x_start),
                                 ToFloat(total_distance)) * 100
                        ELSE 100 * Scale
            remaining == Max2(0, total_time - elapsed)
            complete == current_x >= ToFloat(d.simulation_x_end)
            d1 == IF complete
                  THEN [d EXCEPT !.simulation_running = FALSE,
                                 !.simulation_elapsed = total_time]
                  ELSE d
        IN  [ display |-> d1,
              status |-> [ running |-> d1.simulation_running,
                           progress |-> Round1(progress),
                           elapsed_seconds |-> Round1(elapsed),
                           remaining_seconds |-> Round1(remaining),
                           total_seconds |-> Some(Round1(total_time)),
                           current_x |-> current_x,
                           current_velocity |-> Some(Round4(current_velocity)),
                           complete |-> complete ] ]

\* The call's result: the display it leaves and the dict it returns.  A key the
\* dict lacks is None.  (current_y is not part of this record.)
\* get_simulation_status that reads the stored elapsed time of a running clock.
get_simulation_status_stored(d, t) ==
    IF d.calibration_ellipse = None \/ d.simulation_x_start >= d.simulation_x_end
    THEN [ display |-> d,
           status |-> [ running |-> FALSE,
                        progress |-> 0,
                        elapsed_seconds |-> 0,
                        remaining_seconds |-> 0,
                        total_seconds |-> None,
                        current_x |-> ToFloat(d.simulation_x_start),
                        current_velocity |-> None,
                        complete |-> FALSE ] ]
    ELSE
        LET total_distance == d.simulation_x_end - d.simulation_x_start
            total_time == _get_total_time(d)
            elapsed == d.simulation_elapsed
            current_x == Min2(_x_from_elapsed(d, elapsed), ToFloat(d.simulation_x_end))
            current_velocity == _velocity_from_elapsed(d, elapsed)
            progress == IF total_distance > 0
                        THEN Div(current_x - ToFloat(d.simulation_x_start),
                                 ToFloat(total_distance)) * 100
                        ELSE 100 * Scale
            remaining == Max2(0, total_time - elapsed)
            complete == current_x >= ToFloat(d.simulation_x_end)
            d1 == IF complete
                  THEN [d EXCEPT !.simulation_running = FALSE,
                                 !.simulation_elapsed = total_time]
                  ELSE d
        IN  [ display |-> d1,
              status |-> [ running |-> d1.simulation_running,
                           progress |-> Round1(progress),
                           elapsed_seconds |-> Round1(elapsed),
                           remaining_seconds |-> Round1(remaining),
                           total_seconds |-> Some(Round1(total_time)),
                           current_x |-> current_x,
                           current_velocity |-> Some(Round4(current_velocity)),
                           complete |-> complete ] ]

get_simulation_status(d, t) ==
    IF d.calibration_ellipse = None \/ d.simulation_x_start >= d.simulation_x_end
    THEN [ display |-> d,
           status |-> [ running |-> FALSE,
                        progress |-> 0,
                        elapsed_seconds |-> 0,
                        remaining_seconds |-> 0,
                        total_seconds |-> None,
                        current_x |-> ToFloat(d.simulation_x_start),
                        current_velocity |-> None,
                        complete |-> FALSE ] ]
    ELSE
        LET total_distance == d.simulation_x_end - d.simulation_x_start
            total_time == _get_total_time(d)
            elapsed == IF d.simulation_running /\ d.simulation_start_time # None
                       THEN t - d.simulation_start_time[1]
                       ELSE d.simulation_elapsed
            current_x == Min2(_x_from_elapsed(d, elapsed), ToFloat(d.simulation_x_end))
            current_velocity == _velocity_from_elapsed(d, elapsed)
            progress == IF total_distance > 0
                        THEN Div(current_x - ToFloat(d.simulation_x_start),
                                 ToFloat(total_distance)) * 100
                        ELSE 100 * Scale
            remaining == Max2(0, total_time - elapsed)
            complete == current_x >= ToFloat(d.simulation_x_end)
            d1 == IF complete
                  THEN [d EXCEPT !.simulation_running = FALSE,
                                 !.simulation_elapsed = total_time]
                  ELSE d
        IN  [ display |-> d1,
              status |-> [ running |-> d1.simulation_running,
                           progress |-> Round1(progress),
                           elapsed_seconds |-> Round1(elapsed),
                           remaining_seconds |-> Round1(remaining),
                           total_seconds |-> Some(Round1(total_time)),
                           current_x |-> current_x,
                           current_velocity |-> Some(Round4(current_velocity)),
                           complete |-> complete ] ]

_check_and_play_beeps(d, remaining_seconds, complete) ==
    IF ~d.beep_sound THEN d
    ELSE IF complete /\ ~d.beep_end_triggered
    THEN [d EXCEPT !.beep_end_triggered = TRUE]
    ELSE IF ~d.simulation_running THEN d
    ELSE
        LET d60 == IF /\ ~d.beep_60s_triggered
                      /\ remaining_seconds <= 60 * Scale
                      /\ remaining_seconds > 59 * Scale
                   THEN [d EXCEPT !.beep_60s_triggered = TRUE] ELSE d
            d30 == IF /\ ~d60.beep_30s_triggered
                      /\ remaining_seconds <= 30 * Scale
                      /\ remaining_seconds > 29 * Scale
                   THEN [d60 EXCEPT !.beep_30s_triggered = TRUE] ELSE d60
            current_second == IntPart(remaining_seconds)
        IN  IF /\ remaining_seconds <= 10 * Scale
               /\ remaining_seconds > 0
               /\ current_second # d30.countdown_last_second
               /\ current_second >= 1
            THEN [d30 EXCEPT !.countdown_last_second = current_second]
            ELSE d30

_render_simulation(d, t) ==
    LET r == get_simulation_status(d, t)
    IN  _check_and_play_beeps(r.display, r.status.remaining_seconds, r.status.complete)

\* SimulatorDisplay.render: only the simulation screen touches the state.
render(d, t) == IF d.mode = "SIMULATION" THEN _render_simulation(d, t) ELSE d

(***************************************************************************)
(* fit_ellipse (server.py).  The eigen-decomposition is not computed: for  *)
(* five or more points the fit either fails (None) or yields a conic, and  *)
(* the model allows both.  A result is None or Some(dict), the dict        *)
(* reduced to the keys the display reads.                                  *)
(***************************************************************************)

\* The circle (x - 150)^2 + (y - 300)^2 = 250^2 as conic coefficients.
FittedEllipse ==
    [ center_y |-> ToFloat(300),
      coeffs |-> <<Scale, 0, Scale, ToFloat(-300), ToFloat(-600), ToFloat(50000)>> ]

\* The points of a list with the number of times each occurs: what a least
\* squares fit depends on (the sums of lines 43-45 do not depend on the order).
PointBag(points) ==
    { <<points[k], Cardinality({ j \in 1..Len(points) : points[j] = points[k] })>> :
        k \in 1..Len(points) }

\* The dict a successful fit of points returns; fitted_to stands for the
\* dependence of every value of the dict on the points given.
FitOf(points) ==
    [ center_y |-> FittedEllipse.center_y,
      coeffs |-> FittedEllipse.coeffs,
      fitted_to |-> PointBag(points) ]

fit_ellipse(points) ==
    IF Len(points) < 5 THEN {None} ELSE {None, Some(FitOf(points))}

(***************************************************************************)
(* Application (app.py): the callbacks the server calls.  Each yields the  *)
(* set of displays the call can leave (one per outcome of the fit).        *)
(***************************************************************************)

mode_map ==
    [ m \in 1..5 |->
        CASE m = 1 -> "LOCATOR"
          [] m = 2 -> "ALIGN"
          [] m = 3 -> "CALIBRATION"
          [] m = 4 -> "VELOCITY_MEASURE"
          [] m = 5 -> "SIMULATION" ]

\* The ellipse fitted once and kept for every later point list.
_update_calibration_ellipse_once(d) ==
    IF d.calibration_ellipse # None THEN {d}
    ELSE { set_calibration_ellipse(d, e) : e \in fit_ellipse(d.calibration_points) }

_update_calibration_ellipse(d) ==
    { set_calibration_ellipse(d, e) : e \in fit_ellipse(d.calibration_points) }

_on_mode_change(d, cfg, mode) ==
    IF mode \notin DOMAIN mode_map THEN {d}
    ELSE LET d1 == set_mode(d, mode_map[mode])
             d2 == set_calibration_points(d1, cfg.calibration.points)
         IN  IF mode = 3 THEN _update_calibration_ellipse(d2)
             ELSE IF mode \in {4, 5}
             THEN { set_calibration_ellipse(d2, e) :
                      e \in fit_ellipse(cfg.calibration.points) }
             ELSE {d1}

_sync_calibration_from_config(d, cfg) ==
    LET d1 == set_calibration_points(d, cfg.calibration.points)
        d2 == IF d1.calibration_selected_index >= Len(d1.calibration_points)
              THEN [d1 EXCEPT !.calibration_selected_index =
                                 Len(d1.calibration_points) - 1]
              ELSE d1
    IN  _update_calibration_ellipse(d2)

\* x = -1, y = -1 signals a reset; every other signal reloads from the config.
_on_calibration_click(d, cfg, x, y) ==
    IF x = -1 /\ y = -1 THEN {clear_calibration_points(d)}
    ELSE _sync_calibration_from_config(d, cfg)

_on_simulation_setup(d, cfg, x_start, x_end, pixels_per_second, velocity_profile) ==
    { setup_simulation(set_calibration_ellipse(d, e),
                       x_start, x_end, pixels_per_second, velocity_profile) :
        e \in fit_ellipse(cfg.calibration.points) }

(***************************************************************************)
(* WebServer (server.py).  The configuration is a record of the AppConfig  *)
(* fields the handlers read.  screen_width_mm, distance_to_screen_m and    *)
(* latitude hold whole numbers in every modelled configuration and are     *)
(* kept unscaled; the velocity times are scaled floats or None.            *)
(***************************************************************************)

RECURSIVE MinX(_)
MinX(points) ==
    IF Len(points) = 1 THEN points[1][1]
    ELSE Min2(points[1][1], MinX(Tail(points)))

RECURSIVE MaxX(_)
MaxX(points) ==
    IF Len(points) = 1 THEN points[1][1]
    ELSE Max2(points[1][1], MaxX(Tail(points)))

\* np.cos(np.radians(90.0 - latitude)) at the latitudes the model uses.
LatitudeFactor(latitude) ==
    CASE latitude = 30 -> RoundDiv(Scale, 2)
      [] latitude = 90 -> Scale
      [] latitude = 210 -> 0 - RoundDiv(Scale, 2)

\* Lines 575-584: the sidereal rate in pixels per second.
calculated_pixels_per_second(cfg) ==
    LET pixel_pitch_arcsec ==
            RoundDiv(cfg.display.screen_width_mm * 206265 * Scale,
                     cfg.display.screen_width * cfg.mount.distance_to_screen_m * 1000)
        pps == Div(15 * Scale, pixel_pitch_arcsec)
        latitude == IF cfg.mount.latitude < 0 THEN 0 - cfg.mount.latitude
                    ELSE cfg.mount.latitude
    IN  IF latitude # 0 THEN Mul(pps, LatitudeFactor(latitude)) ELSE pps

\* Lines 591-595: the measured velocities replace the calculated one.
UseMeasuredVelocity(cfg) ==
    /\ cfg.velocity.is_complete
    /\ cfg.velocity.stripe_width_pixels > 0
    /\ cfg.velocity.left_time_seconds # None
    /\ cfg.velocity.middle_time_seconds # None
    /\ cfg.velocity.right_time_seconds # None

\* The measured path with the middle stripe's velocity as the representative one.
MeasuredVelocity_middle(cfg) ==
    LET stripe_width == cfg.velocity.stripe_width_pixels
        screen_width == cfg.display.screen_width
        V(time) == IF time[1] > 0 THEN Div(ToFloat(stripe_width), time[1]) ELSE 0
        v_left == V(cfg.velocity.left_time_seconds)
        v_mid == V(cfg.velocity.middle_time_seconds)
        v_right == V(cfg.velocity.right_time_seconds)
        x_left == RoundDiv(ToFloat(stripe_width), 2)
        x_mid == RoundDiv(ToFloat(screen_width), 2)
        x_right == ToFloat(screen_width) - RoundDiv(ToFloat(stripe_width), 2)
    IN  << v_mid,
           << <<x_left, v_left>>, <<x_mid, v_mid>>, <<x_right, v_right>> >> >>

\* Lines 596-611: <<pixels_per_second, velocity_profile>> of the measured path.
MeasuredVelocity(cfg) ==
    LET stripe_width == cfg.velocity.stripe_width_pixels
        screen_width == cfg.display.screen_width
        V(time) == IF time[1] > 0 THEN Div(ToFloat(stripe_width), time[1]) ELSE 0
        v_left == V(cfg.velocity.left_time_seconds)
        v_mid == V(cfg.velocity.middle_time_seconds)
        v_right == V(cfg.velocity.right_time_seconds)
        x_left == RoundDiv(ToFloat(stripe_width), 2)
        x_mid == RoundDiv(ToFloat(screen_width), 2)
        x_right == ToFloat(screen_width) - RoundDiv(ToFloat(stripe_width), 2)
    IN  << Max2(v_left, Max2(v_mid, v_right)),
           << <<x_left, v_left>>, <<x_mid, v_mid>>, <<x_right, v_right>> >> >>

\* AppConfig.to_dict (config.py), over the fields the model keeps.
to_dict(cfg) ==
    [ mount |-> [ latitude |-> cfg.mount.latitude,
                  distance_to_screen_m |-> cfg.mount.distance_to_screen_m ],
      display |-> [ screen_size |-> cfg.display.screen_size,
                    screen_width |-> cfg.display.screen_width,
                    screen_height |-> cfg.display.screen_height,
                    screen_width_mm |-> cfg.display.screen_width_mm ],
      calibration |-> [ points |-> cfg.calibration.points,
                        is_complete |-> cfg.calibration.is_complete ],
      velocity |-> [ left_time_seconds |-> cfg.velocity.left_time_seconds,
                     middle_time_seconds |-> cfg.velocity.middle_time_seconds,
                     right_time_seconds |-> cfg.velocity.right_time_seconds,
                     stripe_width_pixels |-> cfg.velocity.stripe_width_pixels,
                     is_complete |-> cfg.velocity.is_complete ] ]

\* AppConfig.save_yaml: the file then holds the dumped dict.
save_yaml(cfg) == Some(to_dict(cfg))

\* Python's list index i (from 0) is position i + 1 of a sequence.
RemoveAt(points, index) ==
    SubSeq(points, 1, index) \o SubSeq(points, index + 2, Len(points))

\* The index of the first point with the x given, whatever its y.
IndexOfX(points, x, y) ==
    (CHOOSE i \in 1..Len(points) :
        /\ points[i][1] = x
        /\ \A j \in 1..(i - 1) : points[j][1] # x) - 1

\* next(i for i, p in enumerate(points) if p[0] == x and p[1] == y)
IndexOf(points, x, y) ==
    (CHOOSE i \in 1..Len(points) :
        /\ points[i] = <<x, y>>
        /\ \A j \in 1..(i - 1) : points[j] # <<x, y>>) - 1

\* SimulatorDisplay.add_calibration_point(x, y): the display it leaves and
\* the index it returns.  No caller in the application uses it.
add_calibration_point(d, x, y) ==
    LET points == SortByX(Append(d.calibration_points, <<x, y>>))
    IN  [ display |-> [d EXCEPT !.calibration_points = points],
          index |-> IndexOf(points, x, y) ]

\* POST /api/calibration/click, up to the callback: the configuration it
\* leaves and the index it reports.
calibration_click(cfg, x, y) ==
    LET points == SortByX(Append(cfg.calibration.points, <<x, y>>))
    IN  [ config |-> [cfg EXCEPT !.calibration.points = points],
          response |-> [ status |-> "ok", x |-> x, y |-> y, count |-> Len(points),
                         new_index |-> IndexOf(points, x, y) ] ]

\* DELETE /api/calibration/reset
reset_calibration(cfg) ==
    [ config |-> [cfg EXCEPT !.calibration.points = <<>>,
                             !.calibration.is_complete = FALSE],
      response |-> [status |-> "ok", count |-> 0] ]

\* DELETE /api/calibration/point/<index>
delete_calibration_point(cfg, index) ==
    IF index < 0 \/ index >= Len(cfg.calibration.points)
    THEN [ config |-> cfg, response |-> [status |-> "error"] ]
    ELSE LET points == RemoveAt(cfg.calibration.points, index)
         IN  [ config |-> [cfg EXCEPT !.calibration.points = points],
               response |-> [status |-> "ok", count |-> Len(points)] ]

\* PATCH /api/calibration/point/<index>: data holds dx, dy (kind "relative"),
\* x, y (kind "absolute") or neither (kind "none").
update_calibration_point(cfg, index, data) ==
    IF index < 0 \/ index >= Len(cfg.calibration.points)
    THEN [ config |-> cfg, response |-> [status |-> "error"] ]
    ELSE LET old == cfg.calibration.points[index + 1]
         IN  IF data.kind = "relative"
             THEN [ config |-> [cfg EXCEPT !.calibration.points[index + 1] =
                                   <<old[1] + data.x, old[2] + data.y>>],
                    response |-> [status |-> "ok", count |-> Len(cfg.calibration.points)] ]
             ELSE IF data.kind = "absolute"
             THEN [ config |-> [cfg EXCEPT !.calibration.points[index + 1] =
                                   <<data.x, data.y>>],
                    response |-> [status |-> "ok", count |-> Len(cfg.calibration.points)] ]
             ELSE [ config |-> cfg, response |-> [status |-> "error"] ]

\* PATCH /api/config/mount/<field> with a numeric value: the configuration
\* it leaves and the JSON it returns.  Of the valid fields the model keeps
\* latitude and distance_to_screen_m.
update_mount_field(cfg, field, value) ==
    IF field \notin {"latitude", "distance_to_screen_m"}
    THEN [ config |-> cfg, response |-> [status |-> "error"] ]
    ELSE [ config |-> [cfg EXCEPT !.mount[field] = value],
           response |-> [status |-> "ok", field |-> field, value |-> value] ]

\* PATCH /api/config/display/<field> with a numeric value.
update_display_field(cfg, field, value) ==
    IF field \notin {"screen_width_mm"}
    THEN [ config |-> cfg, response |-> [status |-> "error"] ]
    ELSE [ config |-> [cfg EXCEPT !.display[field] = value],
           response |-> [status |-> "ok", field |-> field, value |-> value] ]

\* The stripes of the velocity measurement.
Stripes == {"left", "middle", "right"}

\* The configuration field that holds a stripe's crossing time.
TimeField(stripe) ==
    IF stripe = "left" THEN "left_time_seconds"
    ELSE IF stripe = "middle" THEN "middle_time_seconds"
    ELSE "right_time_seconds"

\* POST /api/velocity/setup, up to the callback: the stripe width is the
\* distance covered in 180 s at the calculated rate, at least 50 pixels.
velocity_setup(cfg) ==
    IF \/ cfg.display.screen_width_mm <= 0
       \/ cfg.display.screen_width <= 0
       \/ cfg.mount.distance_to_screen_m <= 0
    THEN [ config |-> cfg, response |-> [status |-> "error"] ]
    ELSE LET pixels_per_second == calculated_pixels_per_second(cfg)
             width == (pixels_per_second * 180) \div Scale
             stripe_width == IF width < 50 THEN 50 ELSE width
         IN  [ config |-> [cfg EXCEPT !.velocity.stripe_width_pixels = stripe_width],
               response |-> [ status |-> "ok",
                              pixels_per_second |-> Round4(pixels_per_second),
                              stripe_width_pixels |-> stripe_width ] ]

\* App._on_velocity_setup: the ellipse is fitted anew from the configured
\* points.  The stripe fields of the display are read by the drawing code
\* only and are not kept.
_on_velocity_setup(d, cfg) ==
    { [d EXCEPT !.calibration_ellipse = e] : e \in fit_ellipse(cfg.calibration.points) }

\* POST /api/velocity/time with stripe and time_seconds (None when the
\* request has no time).
record_velocity_time(cfg, stripe, time_seconds) ==
    IF stripe \notin Stripes
    THEN [ config |-> cfg, response |-> [status |-> "error"] ]
    ELSE IF time_seconds = None \/ time_seconds[1] < 0
    THEN [ config |-> cfg, response |-> [status |-> "error"] ]
    ELSE LET stored == [cfg EXCEPT !.velocity[TimeField(stripe)] = time_seconds]
             is_complete == /\ stored.velocity.left_time_seconds # None
                            /\ stored.velocity.middle_time_seconds # None
                            /\ stored.velocity.right_time_seconds # None
         IN  [ config |-> [stored EXCEPT !.velocity.is_complete = is_complete],
               response |-> [ status |-> "ok", stripe |-> stripe,
                              time_seconds |-> time_seconds,
                              is_complete |-> is_complete ] ]

\* Clearing a stripe's time without touching the completeness flag.
clear_velocity_time_keeps_flag(cfg, stripe) ==
    IF stripe \notin Stripes
    THEN [ config |-> cfg, response |-> [status |-> "error"] ]
    ELSE [ config |-> [cfg EXCEPT !.velocity[TimeField(stripe)] = None],
           response |-> [status |-> "ok", stripe |-> stripe] ]

\* DELETE /api/velocity/time/<stripe>
clear_velocity_time(cfg, stripe) ==
    IF stripe \notin Stripes
    THEN [ config |-> cfg, response |-> [status |-> "error"] ]
    ELSE [ config |-> [cfg EXCEPT !.velocity[TimeField(stripe)] = None,
                                  !.velocity.is_complete = FALSE],
           response |-> [status |-> "ok", stripe |-> stripe] ]

\* The set-up request with the geometry judged by the sign of the pixel pitch.
simulation_setup_by_pitch(cfg, d, t) ==
    IF Len(cfg.calibration.points) < 4
    THEN { [ display |-> d, response |-> [status |-> "error"] ] }
    ELSE IF \/ cfg.display.screen_width = 0
            \/ cfg.mount.distance_to_screen_m = 0
            \/ cfg.display.screen_width_mm * cfg.display.screen_width
                   * cfg.mount.distance_to_screen_m <= 0
    THEN { [ display |-> d, response |-> [status |-> "error"] ] }
    ELSE
        LET x_start == MinX(cfg.calibration.points)
            x_end == MaxX(cfg.calibration.points)
            measured == UseMeasuredVelocity(cfg)
            pixels_per_second == IF measured THEN MeasuredVelocity(cfg)[1]
                                 ELSE calculated_pixels_per_second(cfg)
            velocity_profile == IF measured THEN MeasuredVelocity(cfg)[2] ELSE None
        IN  { LET r == get_simulation_status(d1, t)
                  total_time == IF r.status.total_seconds = None THEN 0
                                ELSE r.status.total_seconds[1]
              IN  [ display |-> r.display,
                    response |-> [ status |-> "ok",
                                   x_start |-> x_start,
                                   x_end |-> x_end,
                                   pixels_per_second |-> Round4(pixels_per_second),
                                   total_seconds |-> Round1(total_time) ] ] :
                d1 \in _on_simulation_setup(d, cfg, x_start, x_end,
                                            pixels_per_second, velocity_profile) }

\* POST /api/simulation/setup: the set of outcomes, each the display the
\* request leaves and the JSON it returns.
simulation_setup(cfg, d, t) ==
    IF Len(cfg.calibration.points) < 4
    THEN { [ display |-> d, response |-> [status |-> "error"] ] }
    ELSE IF \/ cfg.display.screen_width_mm <= 0
            \/ cfg.display.screen_width <= 0
            \/ cfg.mount.distance_to_screen_m <= 0
    THEN { [ display |-> d, response |-> [status |-> "error"] ] }
    ELSE
        LET x_start == MinX(cfg.calibration.points)
            x_end == MaxX(cfg.calibration.points)
            measured == UseMeasuredVelocity(cfg)
            pixels_per_second == IF measured THEN MeasuredVelocity(cfg)[1]
                                 ELSE calculated_pixels_per_second(cfg)
            velocity_profile == IF measured THEN MeasuredVelocity(cfg)[2] ELSE None
        IN  { LET r == get_simulation_status(d1, t)
                  total_time == IF r.status.total_seconds = None THEN 0
                                ELSE r.status.total_seconds[1]
              IN  [ display |-> r.display,
                    response |-> [ status |-> "ok",
                                   x_start |-> x_start,
                                   x_end |-> x_end,
                                   pixels_per_second |-> Round4(pixels_per_second),
                                   total_seconds |-> Round1(total_time) ] ] :
                d1 \in _on_simulation_setup(d, cfg, x_start, x_end,
                                            pixels_per_second, velocity_profile) }

(***************************************************************************)
(* The program: the configuration loaded at start-up, the display, the     *)
(* wall clock, and the requests and frames that act on them.               *)
(***************************************************************************)

\* time.time() when the program starts, in seconds.
StartTime == 1000

\* Seconds of wall-clock time one Tick lets pass, and how many Ticks are modelled.
TickSeconds == 30

MaxTicks == 2

\* Calibration point lists a set-up file can hold: too few points, four
\* points, five points over a long and over a short span (the short one
\* stored out of order), and five points on one vertical line.
Points3 == << <<0, 100>>, <<150, 50>>, <<300, 100>> >>

Points4 == << <<0, 100>>, <<30, 55>>, <<70, 55>>, <<100, 100>> >>

Points5 == << <<0, 100>>, <<100, 55>>, <<150, 50>>, <<200, 55>>, <<300, 100>> >>

PointsNear == << <<100, 100>>, <<30, 55>>, <<50, 50>>, <<70, 55>>, <<0, 100>> >>

PointsVertical ==
    << <<100, 50>>, <<100, 75>>, <<100, 100>>, <<100, 125>>, <<100, 150>> >>

\* VelocityMeasurementConfig: nothing measured, or three stripe times.
NotMeasured ==
    [ left_time_seconds |-> None, middle_time_seconds |-> None,
      right_time_seconds |-> None, stripe_width_pixels |-> 0, is_complete |-> FALSE ]

Measured ==
    [ left_time_seconds |-> Some(10 * Scale), middle_time_seconds |-> Some(12 * Scale),
      right_time_seconds |-> Some(15 * Scale), stripe_width_pixels |-> 100,
      is_complete |-> TRUE ]

AppConfig(points, screen_width_mm, latitude, velocity) ==
    [ calibration |-> [points |-> points, is_complete |-> FALSE],
      display |-> [screen_size |-> "custom", screen_width |-> 300,
                   screen_height |-> 200, screen_width_mm |-> screen_width_mm],
      mount |-> [distance_to_screen_m |-> 1, latitude |-> latitude],
      velocity |-> velocity ]

\* The configurations a set-up file can hold.
AppConfigs ==
    { AppConfig(Points5, 6, 0, NotMeasured),
      AppConfig(PointsNear, 6, 0, NotMeasured),
      AppConfig(PointsNear, 6, 210, NotMeasured),
      AppConfig(PointsNear, 6, 0, Measured),
      AppConfig(Points4, 6, 30, NotMeasured),
      AppConfig(Points3, 6, 30, NotMeasured),
      AppConfig(PointsVertical, 6, 30, NotMeasured),
      AppConfig(Points5, 0, 30, NotMeasured) }

\* Request payloads, in seconds.
SkipSeconds == { s * Scale : s \in {-200, 30, 200} }

SeekSeconds == { s * Scale : s \in {-5, 23, 75, 1000} }

Modes == {5, 6}

VARIABLES
    config,       \* AppConfig
    setup_file,   \* what save_yaml last wrote to the set-up file (None: no file)
    display,      \* SimulatorDisplay
    now,          \* the wall clock, time.time()
    trace_op,     \* the last call made and what it met (see Call)
    result,       \* what the last call returned (None when it returns nothing)
    pinned,       \* a status request has seen elapsed >= total_time, and no
                  \* reset, seek, skip or set-up came after it; under
                  \* ArcSpec, the first arc a status request saw (see ArcStatus)
    paused_at     \* <<elapsed time, wall-clock time>> at the last stop of a
                  \* running clock, while nothing that moves the clock came
                  \* after it

vars == <<config, setup_file, display, now, trace_op, result, pinned, paused_at>>

\* The elapsed time get_simulation_status derives (lines 486-490).
Elapsed(d, t) ==
    IF d.simulation_running /\ d.simulation_start_time # None
    THEN t - d.simulation_start_time[1]
    ELSE d.simulation_elapsed

Degenerate(d) ==
    d.calibration_ellipse = None \/ d.simulation_x_start >= d.simulation_x_end

ReachedEnd(d, t) == ~Degenerate(d) /\ Elapsed(d, t) >= _get_total_time(d)

BeepsClear(d) ==
    /\ ~d.beep_60s_triggered
    /\ ~d.beep_30s_triggered
    /\ d.countdown_last_second = -1
    /\ ~d.beep_end_triggered

\* The record of a call: its name and argument, whether it met a running
\* clock (was_running) and untouched beep flags (was_clear), the
\* paused_at it met, for a start (resumed), where a skip would land without
\* clamping (reach), and, for a status request, the call that came right
\* before it (after).
Call(name, arg) ==
    [ op |-> name, arg |-> arg,
      was_running |-> display.simulation_running,
      was_clear |-> IF name \in {"reset", "setup"} THEN BeepsClear(display) ELSE TRUE,
      resumed |-> None, reach |-> "", after |-> "" ]

\* Calls no property tells apart leave the same record.
Other ==
    [ op |-> "other", arg |-> 0, was_running |-> FALSE, was_clear |-> TRUE,
      resumed |-> None, reach |-> "", after |-> "" ]

Init ==
    /\ config \in AppConfigs
    /\ setup_file = None
    /\ display \in { SimulatorDisplay_init(audio) : audio \in BOOLEAN }
    /\ now = StartTime * Scale
    /\ trace_op = Other
    /\ result = None
    /\ pinned = FALSE
    /\ paused_at = None

\* Wall-clock time passes.
Tick ==
    /\ now + TickSeconds * Scale <= (StartTime + MaxTicks * TickSeconds) * Scale
    /\ now' = now + TickSeconds * Scale
    /\ trace_op' = Other
    /\ result' = None
    /\ UNCHANGED <<config, setup_file, display, pinned, paused_at>>

\* One frame of the main loop (Application.run).
Frame ==
    /\ display' = render(display, now)
    /\ trace_op' = Other
    /\ result' = None
    /\ paused_at' = IF display'.simulation_elapsed # display.simulation_elapsed
                    THEN None ELSE paused_at
    /\ UNCHANGED <<config, setup_file, now, pinned>>

\* POST /api/mode
ApiSetMode ==
    \E mode \in Modes :
        /\ display' \in _on_mode_change(display, config, mode)
        /\ trace_op' = Other
        /\ result' = None
        /\ UNCHANGED <<config, setup_file, now, pinned, paused_at>>

\* POST /api/simulation/setup
ApiSimulationSetup ==
    \E r \in simulation_setup(config, display, now) :
        /\ display' = r.display
        /\ trace_op' = IF r.response.status = "ok"
                       THEN Call("setup", 0) ELSE Call("setup_rejected", 0)
        /\ result' = Some(r.response)
        /\ pinned' = IF r.response.status = "ok" THEN FALSE ELSE pinned
        /\ paused_at' = IF r.response.status = "ok" THEN None ELSE paused_at
        /\ UNCHANGED <<config, setup_file, now>>

\* POST /api/simulation/start
ApiSimulationStart ==
    /\ display' = start_simulation(display, now)
    /\ trace_op' = [Call("start", 0) EXCEPT !.resumed = paused_at]
    /\ result' = None
    /\ paused_at' = None
    /\ UNCHANGED <<config, setup_file, now, pinned>>

\* POST /api/simulation/stop
ApiSimulationStop ==
    /\ display' = stop_simulation(display, now)
    /\ trace_op' = Call("stop", 0)
    /\ result' = None
    /\ paused_at' = IF display.simulation_running
                    THEN Some(<<Elapsed(display, now), now>>) ELSE paused_at
    /\ UNCHANGED <<config, setup_file, now, pinned>>

\* POST /api/simulation/reset
ApiSimulationReset ==
    /\ display' = reset_simulation(display)
    /\ trace_op' = Call("reset", 0)
    /\ result' = None
    /\ pinned' = FALSE
    /\ paused_at' = None
    /\ UNCHANGED <<config, setup_file, now>>

\* POST /api/simulation/skip
ApiSimulationSkip ==
    \E seconds \in SkipSeconds :
        LET landing == Elapsed(display, now) + seconds
        IN  /\ display' = skip_simulation(display, seconds, now)
            /\ trace_op' =
                   [Call("skip", seconds) EXCEPT
                       !.reach = IF landing > _get_total_time(display) THEN "over"
                                 ELSE IF landing <= 0 THEN "under"
                                 ELSE "within"]
            /\ result' = None
            /\ pinned' = FALSE
            /\ paused_at' = None
            /\ UNCHANGED <<config, setup_file, now>>

\* POST /api/simulation/seek
ApiSimulationSeek ==
    \E elapsed_seconds \in SeekSeconds :
        /\ display' = seek_simulation(display, elapsed_seconds, now)
        /\ trace_op' = Call("seek", elapsed_seconds)
        /\ result' = None
        /\ pinned' = FALSE
        /\ paused_at' = None
        /\ UNCHANGED <<config, setup_file, now>>

\* GET /api/simulation/status
ApiSimulationStatus ==
    LET r == get_simulation_status(display, now)
    IN  /\ display' = r.display
        /\ trace_op' = IF trace_op.op \in {"seek", "skip", "setup"}
                       THEN [trace_op EXCEPT !.op = "status", !.after = trace_op.op]
                       ELSE [Other EXCEPT !.op = "status",
                                          !.after = IF pinned THEN "pinned" ELSE ""]
        /\ result' = Some(r.status)
        /\ pinned' = IF ReachedEnd(display, now) THEN TRUE ELSE pinned
        /\ paused_at' = IF display'.simulation_elapsed # display.simulation_elapsed
                        THEN None ELSE paused_at
        /\ UNCHANGED <<config, setup_file, now>>

Next ==
    \/ Tick
    \/ Frame
    \/ ApiSetMode
    \/ ApiSimulationSetup
    \/ ApiSimulationStart
    \/ ApiSimulationStop
    \/ ApiSimulationReset
    \/ ApiSimulationSkip
    \/ ApiSimulationSeek
    \/ ApiSimulationStatus

Spec == Init /\ [][Next]_vars


(***************************************************************************)
(* Editing the calibration points: the requests of the calibration page,   *)
(* starting from an empty point list.                                      *)
(***************************************************************************)

\* The most points the list is let grow to.
MaxPoints == 3

\* The screen coordinates a click or an absolute update can carry, and the
\* steps of a relative update.
CalXs == {10, 20, 30}

CalYs == {40, 60}

CalMoves == {-10, 10}

UpdateData ==
    { [kind |-> "absolute", x |-> x, y |-> y] : x \in CalXs, y \in CalYs }
    \cup { [kind |-> "relative", x |-> dx, y |-> 0] : dx \in CalMoves }
    \cup { [kind |-> "none", x |-> 0, y |-> 0] }

CalInit ==
    /\ config = AppConfig(<<>>, 6, 30, NotMeasured)
    /\ setup_file = None
    /\ display = SimulatorDisplay_init(TRUE)
    /\ now = StartTime * Scale
    /\ trace_op = Other
    /\ result = None
    /\ pinned = FALSE
    /\ paused_at = None

\* POST /api/calibration/click
ApiCalibrationClick ==
    \E x \in CalXs, y \in CalYs :
        LET r == calibration_click(config, x, y)
        IN  /\ Len(config.calibration.points) < MaxPoints
            /\ config' = r.config
            /\ setup_file' = save_yaml(r.config)
            /\ display' \in _on_calibration_click(display, r.config, x, y)
            /\ trace_op' = [Other EXCEPT !.op = "click"]
            /\ result' = Some(r.response)
            /\ UNCHANGED <<now, pinned, paused_at>>

\* DELETE /api/calibration/reset
ApiResetCalibration ==
    LET r == reset_calibration(config)
    IN  /\ config' = r.config
        /\ setup_file' = save_yaml(r.config)
        /\ display' \in _on_calibration_click(display, r.config, -1, -1)
        /\ trace_op' = [Other EXCEPT !.op = "reset_calibration"]
        /\ result' = Some(r.response)
        /\ UNCHANGED <<now, pinned, paused_at>>

\* DELETE /api/calibration/point/<index>
ApiDeleteCalibrationPoint ==
    \E index \in 0..Len(config.calibration.points) :
        LET r == delete_calibration_point(config, index)
        IN  /\ config' = r.config
            /\ setup_file' = IF r.response.status = "ok"
                             THEN save_yaml(r.config) ELSE setup_file
            /\ display' \in IF r.response.status = "ok"
                            THEN _on_calibration_click(display, r.config, -2, index)
                            ELSE {display}
            /\ trace_op' = [Other EXCEPT !.op = "delete_point"]
            /\ result' = Some(r.response)
            /\ UNCHANGED <<now, pinned, paused_at>>

\* PATCH /api/calibration/point/<index>
ApiUpdateCalibrationPoint ==
    \E index \in 0..Len(config.calibration.points), data \in UpdateData :
        LET r == update_calibration_point(config, index, data)
        IN  /\ \A i \in 1..Len(r.config.calibration.points) :
                   r.config.calibration.points[i][1] \in CalXs
            /\ config' = r.config
            /\ setup_file' = IF r.response.status = "ok"
                             THEN save_yaml(r.config) ELSE setup_file
            /\ display' \in IF r.response.status = "ok"
                            THEN _on_calibration_click(display, r.config, -3, index)
                            ELSE {display}
            /\ trace_op' = [Other EXCEPT !.op = "update_point"]
            /\ result' = Some(r.response)
            /\ UNCHANGED <<now, pinned, paused_at>>

CalNext ==
    \/ ApiCalibrationClick
    \/ ApiResetCalibration
    \/ ApiDeleteCalibrationPoint
    \/ ApiUpdateCalibrationPoint

CalSpec == CalInit /\ [][CalNext]_vars

IsSortedByX(points) ==
    \A i \in 1..(Len(points) - 1) : points[i][1] <= points[i + 1][1]

(***************************************************************************)
(* The trajectory alone: SimulatorDisplay.setup_simulation called with     *)
(* x ranges, velocities and velocity profiles drawn from small sets, on a  *)
(* display that holds a fitted ellipse, then sought and queried.           *)
(***************************************************************************)

\* <<x_start, x_end>> in pixels.
TrajRanges == { <<0, 500>>, <<0, 100>>, <<40, 240>>, <<100, 100>> }

\* pixels_per_second, as scaled floats: 5, 3.63, 0 and -1 px/s.
TrajVelocities == { 5 * Scale, RoundDiv(363 * Scale, 100), 0, 0 - Scale }

\* velocity_profile: none, two samples, three samples (falling, as measured
\* at the stripe centres, and rising).
Profile2 == << <<ToFloat(50), 10 * Scale>>, <<ToFloat(250), 6 * Scale>> >>

Profile3Falling ==
    << <<ToFloat(50), 10 * Scale>>, <<ToFloat(150), 6 * Scale>>,
       <<ToFloat(250), 2 * Scale>> >>

Profile3Rising ==
    << <<ToFloat(50), 4 * Scale>>, <<ToFloat(150), 5 * Scale>>,
       <<ToFloat(250), 8 * Scale>> >>

TrajProfiles == { None, Profile2, Profile3Falling, Profile3Rising }

\* Seek targets in seconds.
TrajSeeks == { s * Scale : s \in {-5, 0, 7, 20, 50, 1000} }

TrajInit ==
    /\ config = AppConfig(Points5, 6, 0, NotMeasured)
    /\ setup_file = None
    /\ display = set_calibration_ellipse(SimulatorDisplay_init(TRUE), Some(FittedEllipse))
    /\ now = StartTime * Scale
    /\ trace_op = Other
    /\ result = None
    /\ pinned = FALSE
    /\ paused_at = None

\* SimulatorDisplay.setup_simulation(x_start, x_end, pixels_per_second, profile).
\* The record keeps the number of samples given and the velocity.
TrajSetup ==
    \E xr \in TrajRanges, v \in TrajVelocities, profile \in TrajProfiles :
        /\ display' = setup_simulation(display, xr[1], xr[2], v, profile)
        /\ trace_op' = [Other EXCEPT !.op = "setup_simulation", !.arg = Len(profile)]
        /\ result' = None
        /\ pinned' = FALSE
        /\ paused_at' = None
        /\ UNCHANGED <<config, setup_file, now>>

\* SimulatorDisplay.seek_simulation(elapsed_seconds)
TrajSeek ==
    \E elapsed_seconds \in TrajSeeks :
        /\ display' = seek_simulation(display, elapsed_seconds, now)
        /\ trace_op' = Call("seek", elapsed_seconds)
        /\ result' = None
        /\ pinned' = FALSE
        /\ paused_at' = None
        /\ UNCHANGED <<config, setup_file, now>>

TrajNext ==
    \/ TrajSetup
    \/ TrajSeek
    \/ ApiSimulationStart
    \/ ApiSimulationStatus

TrajSpec == TrajInit /\ [][TrajNext]_vars

(***************************************************************************)
(* Calibration with enough points for a fit (CurveSpec): the requests of   *)
(* CalSpec over fewer coordinates and longer lists.                        *)
(***************************************************************************)

MaxCurvePoints == 5

\* Clicks: two screen positions, and the position (-1, -1) that the
\* application reads as the reset signal.
CurveClicks == { <<10, 40>>, <<20, 40>>, <<-1, -1>> }

CurveUpdates ==
    { [kind |-> "absolute", x |-> 20, y |-> 40],
      [kind |-> "relative", x |-> 10, y |-> 0],
      [kind |-> "relative", x |-> -10, y |-> 0],
      [kind |-> "none", x |-> 0, y |-> 0] }

CurveInit ==
    /\ config = AppConfig(<<>>, 6, 30, NotMeasured)
    /\ setup_file = None
    /\ display = SimulatorDisplay_init(TRUE)
    /\ now = StartTime * Scale
    /\ trace_op = Other
    /\ result = None
    /\ pinned = FALSE
    /\ paused_at = None

\* POST /api/calibration/click
CurveClick ==
    \E p \in CurveClicks :
        LET r == calibration_click(config, p[1], p[2])
        IN  /\ Len(config.calibration.points) < MaxCurvePoints
            /\ config' = r.config
            /\ setup_file' = save_yaml(r.config)
            /\ display' \in _on_calibration_click(display, r.config, p[1], p[2])
            /\ trace_op' = [Other EXCEPT !.op = "click"]
            /\ result' = Some(r.response)
            /\ UNCHANGED <<now, pinned, paused_at>>

\* DELETE /api/calibration/reset
CurveReset ==
    LET r == reset_calibration(config)
    IN  /\ config' = r.config
        /\ setup_file' = save_yaml(r.config)
        /\ display' \in _on_calibration_click(display, r.config, -1, -1)
        /\ trace_op' = [Other EXCEPT !.op = "reset_calibration"]
        /\ result' = Some(r.response)
        /\ UNCHANGED <<now, pinned, paused_at>>

\* DELETE /api/calibration/point/<index>
CurveDelete ==
    \E index \in 0..Len(config.calibration.points) :
        LET r == delete_calibration_point(config, index)
        IN  /\ config' = r.config
            /\ setup_file' = IF r.response.status = "ok"
                             THEN save_yaml(r.config) ELSE setup_file
            /\ display' \in IF r.response.status = "ok"
                            THEN _on_calibration_click(display, r.config, -2, index)
                            ELSE {display}
            /\ trace_op' = [Other EXCEPT !.op = "delete_point"]
            /\ result' = Some(r.response)
            /\ UNCHANGED <<now, pinned, paused_at>>

\* PATCH /api/calibration/point/<index>
CurveUpdate ==
    \E index \in 0..Len(config.calibration.points), data \in CurveUpdates :
        LET r == update_calibration_point(config, index, data)
        IN  /\ \A i \in 1..Len(r.config.calibration.points) :
                   r.config.calibration.points[i][1] \in {-1, 10, 20}
            /\ config' = r.config
            /\ setup_file' = IF r.response.status = "ok"
                             THEN save_yaml(r.config) ELSE setup_file
            /\ display' \in IF r.response.status = "ok"
                            THEN _on_calibration_click(display, r.config, -3, index)
                            ELSE {display}
            /\ trace_op' = [Other EXCEPT !.op = "update_point"]
            /\ result' = Some(r.response)
            /\ UNCHANGED <<now, pinned, paused_at>>

CurveNext ==
    \/ CurveClick
    \/ CurveReset
    \/ CurveDelete
    \/ CurveUpdate

CurveSpec == CurveInit /\ [][CurveNext]_vars

(***************************************************************************)
(* The arc evaluator (display.py, _ellipse_y_from_x) and the states it is  *)
(* asked in.  The conic A x^2 + B x y + C y^2 + D x + E y + F = 0 gives,    *)
(* for one x, the quadratic qa y^2 + qb y + qc = 0 in y.                    *)
(***************************************************************************)

RECURSIVE SqrtSearch(_, _, _)
\* The largest r in lo..hi with r * r <= n (lo * lo <= n).
SqrtSearch(n, lo, hi) ==
    IF lo >= hi THEN lo
    ELSE LET mid == (lo + hi + 1) \div 2
         IN  IF mid <= n \div mid
             THEN SqrtSearch(n, mid, hi)
             ELSE SqrtSearch(n, lo, mid - 1)

\* math.sqrt(v) of a scaled float v >= 0, rounded to the nearest scaled float.
Sqrt(v) ==
    LET n == v * Scale
        r == SqrtSearch(n, 0, n)
    IN  IF n - r * r > r THEN r + 1 ELSE r

\* abs(v)
Abs(v) == IF v < 0 THEN 0 - v ELSE v

\* The semi-axes in the order the formulas give them.
semi_axes_unswapped(num, denom_a, denom_b) ==
    << Sqrt(Div(num, denom_a)), Sqrt(Div(num, denom_b)) >>

\* fit_ellipse, lines 96-100: <<semi_major, semi_minor>>, swapped where the
\* second is the larger.
semi_axes(num, denom_a, denom_b) ==
    LET semi_major == Sqrt(Div(num, denom_a))
        semi_minor == Sqrt(Div(num, denom_b))
    IN  IF semi_minor > semi_major THEN <<semi_minor, semi_major>>
        ELSE <<semi_major, semi_minor>>

\* fit_ellipse, lines 56-115, from what NumPy has computed: eigenvalues[i]
\* and the column eigenvectors[i] = <<A, B, C>> of np.linalg.eig(M), real
\* arrays, and a2 = <<D, E, F>> for the column chosen.  np.argmin takes the
\* first of equal minima; abs(denom) < 1e-10 is denom = 0 at the digits the
\* model carries.  The angle, which nothing reads, is not kept.
ellipse_from_eigen(eigenvalues, eigenvectors, a2) ==
    LET cond == [i \in 1..3 |->
                    4 * Mul(eigenvectors[i][1], eigenvectors[i][3])
                        - Mul(eigenvectors[i][2], eigenvectors[i][2])]
        valid_idx == {i \in 1..3 : cond[i] > 0}
    IN  IF valid_idx = {} THEN None
        ELSE
        LET idx == CHOOSE i \in valid_idx : \A j \in valid_idx :
                       \/ Abs(eigenvalues[i]) < Abs(eigenvalues[j])
                       \/ Abs(eigenvalues[i]) = Abs(eigenvalues[j]) /\ i <= j
            A == eigenvectors[idx][1]
            B == eigenvectors[idx][2]
            C == eigenvectors[idx][3]
            D == a2[1]
            E == a2[2]
            F == a2[3]
            denom == 4 * Mul(A, C) - Mul(B, B)
        IN  IF denom = 0 THEN None
            ELSE
            LET center_x == Div(Mul(B, E) - 2 * Mul(C, D), denom)
                center_y == Div(Mul(B, D) - 2 * Mul(A, E), denom)
                num == 2 * (Mul(A, Mul(E, E)) + Mul(C, Mul(D, D)) - Mul(Mul(B, D), E)
                            + Mul(Mul(B, B) - 4 * Mul(A, C), F))
                term2 == Sqrt(Mul(A - C, A - C) + Mul(B, B))
                denom_a == Mul(Mul(B, B) - 4 * Mul(A, C), term2 - (A + C))
                denom_b == Mul(Mul(B, B) - 4 * Mul(A, C), (0 - term2) - (A + C))
            IN  IF \/ denom_a = 0
                   \/ denom_b = 0
                   \/ Div(num, denom_a) < 0
                   \/ Div(num, denom_b) < 0
                THEN None
                ELSE Some([ center_x |-> center_x,
                            center_y |-> center_y,
                            semi_major |-> semi_axes(num, denom_a, denom_b)[1],
                            semi_minor |-> semi_axes(num, denom_a, denom_b)[2],
                            coeffs |-> <<A, B, C, D, E, F>> ])

\* Lines 438-453: the two roots <<y1, y2>>, or None where the code returns
\* None before it chooses an arc.  abs(qa) < 1e-10 is qa = 0 at the digits
\* the model carries.
EllipseRoots(d, x) ==
    IF d.calibration_ellipse = None THEN None
    ELSE LET coeffs == d.calibration_ellipse[1].coeffs
             A == coeffs[1]
             B == coeffs[2]
             C == coeffs[3]
             D == coeffs[4]
             E == coeffs[5]
             F == coeffs[6]
             qa == C
             qb == Mul(B, x) + E
             qc == Mul(Mul(A, x), x) + Mul(D, x) + F
             discriminant == Mul(qb, qb) - 4 * Mul(qa, qc)
         IN  IF discriminant < 0 \/ qa = 0 THEN None
             ELSE LET sqrt_disc == Sqrt(discriminant)
                  IN  Some(<< Div((0 - qb) + sqrt_disc, 2 * qa),
                              Div((0 - qb) - sqrt_disc, 2 * qa) >>)

\* Line 459: the number of calibration points with p[1] < center_y.
RECURSIVE PointsAbove(_, _)
PointsAbove(points, center_y) ==
    IF points = <<>> THEN 0
    ELSE (IF ToFloat(points[1][2]) < center_y THEN 1 ELSE 0)
             + PointsAbove(Tail(points), center_y)

\* The evaluator with the majority counted from the points above the middle
\* of the two roots at x.
_ellipse_y_from_x_by_chord(d, x, use_upper_arc) ==
    LET roots == EllipseRoots(d, x)
    IN  IF roots = None THEN None
        ELSE LET y1 == roots[1][1]
                 y2 == roots[1][2]
                 middle == (y1 + y2) \div 2
                 upper ==
                     IF use_upper_arc # None THEN use_upper_arc[1]
                     ELSE IF d.calibration_points # <<>>
                     THEN 2 * PointsAbove(d.calibration_points, middle)
                              > Len(d.calibration_points)
                     ELSE TRUE
             IN  IF upper THEN Some(Min2(y1, y2)) ELSE Some(Max2(y1, y2))

\* The evaluator with a tie counted as a majority.
_ellipse_y_from_x_tie_upper(d, x, use_upper_arc) ==
    LET roots == EllipseRoots(d, x)
    IN  IF roots = None THEN None
        ELSE LET y1 == roots[1][1]
                 y2 == roots[1][2]
                 center_y == d.calibration_ellipse[1].center_y
                 upper ==
                     IF use_upper_arc # None THEN use_upper_arc[1]
                     ELSE IF d.calibration_points # <<>>
                     THEN 2 * PointsAbove(d.calibration_points, center_y)
                              >= Len(d.calibration_points)
                     ELSE TRUE
             IN  IF upper THEN Some(Min2(y1, y2)) ELSE Some(Max2(y1, y2))

\* The evaluator with the lower arc for an empty point list.
_ellipse_y_from_x_empty_lower(d, x, use_upper_arc) ==
    LET roots == EllipseRoots(d, x)
    IN  IF roots = None THEN None
        ELSE LET y1 == roots[1][1]
                 y2 == roots[1][2]
                 center_y == d.calibration_ellipse[1].center_y
                 upper ==
                     IF use_upper_arc # None THEN use_upper_arc[1]
                     ELSE IF d.calibration_points # <<>>
                     THEN 2 * PointsAbove(d.calibration_points, center_y)
                              > Len(d.calibration_points)
                     ELSE FALSE
             IN  IF upper THEN Some(Min2(y1, y2)) ELSE Some(Max2(y1, y2))

\* SimulatorDisplay._ellipse_y_from_x(x, use_upper_arc): None or Some(y).
\* points_above > len(points) / 2 is 2 * points_above > len(points).
_ellipse_y_from_x(d, x, use_upper_arc) ==
    LET roots == EllipseRoots(d, x)
    IN  IF roots = None THEN None
        ELSE LET y1 == roots[1][1]
                 y2 == roots[1][2]
                 center_y == d.calibration_ellipse[1].center_y
                 upper ==
                     IF use_upper_arc # None THEN use_upper_arc[1]
                     ELSE IF d.calibration_points # <<>>
                     THEN 2 * PointsAbove(d.calibration_points, center_y)
                              > Len(d.calibration_points)
                     ELSE TRUE
             IN  IF upper THEN Some(Min2(y1, y2)) ELSE Some(Max2(y1, y2))

\* current_y with the 0 of the early return where the evaluator returns None.
CurrentY_or_zero(d, current_x) ==
    LET y == _ellipse_y_from_x(d, current_x, None)
    IN  IF y # None THEN y[1] ELSE 0

\* Lines 495-497 of get_simulation_status: current_y at current_x, with
\* center_y where the evaluator returns None.
CurrentY(d, current_x) ==
    LET y == _ellipse_y_from_x(d, current_x, None)
    IN  IF y # None THEN y[1] ELSE d.calibration_ellipse[1].center_y

\* Conics a fit can return, each with centre (10, 10): a circle of radius 8,
\* the same circle with every coefficient negated (the sign of the fitted
\* eigenvector is arbitrary), and the tilted ellipse
\* x^2 + x y + y^2 - 30 x - 30 y + 225 = 0, which spans 0 <= x <= 20.
ArcCircle ==
    [ center_y |-> ToFloat(10),
      coeffs |-> <<Scale, 0, Scale, ToFloat(-20), ToFloat(-20), ToFloat(136)>> ]

ArcCircleNegated ==
    [ center_y |-> ToFloat(10),
      coeffs |-> <<0 - Scale, 0, 0 - Scale, ToFloat(20), ToFloat(20), ToFloat(-136)>> ]

ArcTilted ==
    [ center_y |-> ToFloat(10),
      coeffs |-> <<Scale, Scale, Scale, ToFloat(-30), ToFloat(-30), ToFloat(225)>> ]

\* A fit so elongated that its C is below 1e-10: 0 at the digits carried.
ArcFlat ==
    [ center_y |-> ToFloat(10),
      coeffs |-> <<Scale, 0, 0, ToFloat(-20), 0 - Scale, ToFloat(100)>> ]

ArcEllipses == { ArcCircle, ArcCircleNegated, ArcTilted, ArcFlat }

\* Calibration point lists, by the number of points with y < 10: none of
\* none, 1 of 1, 3 of 5, 2 of 5, 2 of 5 with one point at y = 10, 3 of 6 and
\* 1 of 2.
ArcPointSets ==
    { <<>>,
      << <<10, 2>> >>,
      << <<2, 4>>, <<6, 3>>, <<10, 2>>, <<14, 16>>, <<18, 17>> >>,
      << <<2, 4>>, <<6, 17>>, <<10, 18>>, <<14, 16>>, <<18, 5>> >>,
      << <<2, 4>>, <<6, 10>>, <<10, 18>>, <<14, 16>>, <<18, 5>> >>,
      << <<2, 3>>, <<5, 7>>, <<8, 8>>, <<12, 12>>, <<15, 13>>, <<18, 17>> >>,
      << <<5, 5>>, <<15, 15>> >> }

\* The x positions asked for; -5 lies outside every conic above.
ArcXs == { ToFloat(x) : x \in {-5, 2, 5, 10, 15, 18, 20} }

\* Which root the evaluator returned at x: "upper" (the smaller), "lower"
\* (the larger), or "none" where it returns None or the roots coincide.
Branch(d, x) ==
    LET roots == EllipseRoots(d, x)
        y == _ellipse_y_from_x(d, x, None)
    IN  IF roots = None \/ y = None THEN "none"
        ELSE IF roots[1][1] = roots[1][2] THEN "none"
        ELSE IF y[1] = Min2(roots[1][1], roots[1][2]) THEN "upper"
        ELSE "lower"

ArcInit ==
    /\ config = AppConfig(<<>>, 6, 30, NotMeasured)
    /\ setup_file = None
    /\ display = SimulatorDisplay_init(TRUE)
    /\ now = StartTime * Scale
    /\ trace_op = Other
    /\ result = None
    /\ pinned = None
    /\ paused_at = None

\* SimulatorDisplay.set_calibration_points(points).  pinned forgets the
\* branch seen for the former points.
ArcSetPoints ==
    \E points \in ArcPointSets :
        /\ display' = set_calibration_points(display, points)
        /\ trace_op' = [Other EXCEPT !.op = "set_calibration_points"]
        /\ result' = None
        /\ pinned' = None
        /\ UNCHANGED <<config, setup_file, now, paused_at>>

\* SimulatorDisplay.set_calibration_ellipse(ellipse)
ArcSetEllipse ==
    \E ellipse \in {None} \cup { Some(e) : e \in ArcEllipses } :
        /\ display' = set_calibration_ellipse(display, ellipse)
        /\ trace_op' = [Other EXCEPT !.op = "set_calibration_ellipse"]
        /\ result' = None
        /\ pinned' = None
        /\ UNCHANGED <<config, setup_file, now, paused_at>>

\* The part of a status request that reads the arc (lines 495-497, and line
\* 479 without an ellipse) at current_x = x.  pinned keeps the first branch
\* seen since the points and the ellipse were last set, and the x it was
\* seen at.
ArcStatus ==
    \E x \in ArcXs :
        /\ result' = [ current_x |-> x,
                       y |-> _ellipse_y_from_x(display, x, None),
                       current_y |-> IF display.calibration_ellipse = None THEN 0
                                     ELSE CurrentY(display, x),
                       branch |-> Branch(display, x) ]
        /\ trace_op' = [Other EXCEPT !.op = "arc", !.arg = x]
        /\ pinned' = IF pinned = None /\ Branch(display, x) # "none"
                     THEN Some(<<Branch(display, x), x>>)
                     ELSE pinned
        /\ UNCHANGED <<config, setup_file, display, now, paused_at>>

ArcNext ==
    \/ ArcSetPoints
    \/ ArcSetEllipse
    \/ ArcStatus

ArcSpec == ArcInit /\ [][ArcNext]_vars

(***************************************************************************)
(* Set-up requests between changes of the geometry (SetupSpec): the        *)
(* display and mount fields are patched while a trajectory is set up and   *)
(* its clock runs.                                                         *)
(***************************************************************************)

\* Values a PATCH can carry for screen_width_mm and for distance_to_screen_m.
WidthValues == {-5, 0, 6}

DistanceValues == {-1, 0, 1}

\* Set-up files: a sound one, one with a screen width of 0 px, one with too
\* few points.
SetupConfigs ==
    { AppConfig(PointsNear, 6, 0, NotMeasured),
      [AppConfig(PointsNear, 6, 0, NotMeasured) EXCEPT !.display.screen_width = 0],
      AppConfig(Points3, 6, 0, NotMeasured) }

\* Line 572: the geometry the set-up request refuses.
InvalidGeometry(cfg) ==
    \/ cfg.display.screen_width_mm <= 0
    \/ cfg.display.screen_width <= 0
    \/ cfg.mount.distance_to_screen_m <= 0

SetupInit ==
    /\ config \in SetupConfigs
    /\ setup_file = None
    /\ display = SimulatorDisplay_init(TRUE)
    /\ now = StartTime * Scale
    /\ trace_op = Other
    /\ result = None
    /\ pinned = FALSE
    /\ paused_at = None

\* PATCH /api/config/display/<field>
ApiUpdateDisplayField ==
    \E field \in {"screen_width_mm", "screen_width"}, value \in WidthValues :
        LET r == update_display_field(config, field, value)
        IN  /\ config' = r.config
            /\ setup_file' = IF r.response.status = "ok" THEN save_yaml(r.config)
                             ELSE setup_file
            /\ trace_op' = [Other EXCEPT !.op = "update_display_field"]
            /\ result' = Some(r.response)
            /\ UNCHANGED <<display, now, pinned, paused_at>>

\* PATCH /api/config/mount/<field>
ApiUpdateMountField ==
    \E field \in {"distance_to_screen_m", "declination"}, value \in DistanceValues :
        LET r == update_mount_field(config, field, value)
        IN  /\ config' = r.config
            /\ setup_file' = IF r.response.status = "ok" THEN save_yaml(r.config)
                             ELSE setup_file
            /\ trace_op' = [Other EXCEPT !.op = "update_mount_field"]
            /\ result' = Some(r.response)
            /\ UNCHANGED <<display, now, pinned, paused_at>>

SetupNext ==
    \/ Tick
    \/ ApiUpdateDisplayField
    \/ ApiUpdateMountField
    \/ ApiSimulationSetup
    \/ ApiSimulationStart
    \/ ApiSimulationStop

SetupSpec == SetupInit /\ [][SetupNext]_vars

(***************************************************************************)
(* The velocity measurement: the stripe width is set up, crossing times    *)
(* are recorded and cleared stripe by stripe, and the simulation is set up *)
(* from whatever the configuration then holds.                             *)
(***************************************************************************)

\* Configurations at start-up: nothing measured, with the default stripe
\* width or with one a previous velocity set-up stored in the set-up file.
VelocityConfigs ==
    { AppConfig(PointsNear, 6, 0, NotMeasured),
      AppConfig(PointsNear, 6, 0, [NotMeasured EXCEPT !.stripe_width_pixels = 100]) }

\* The requests that record a time, as <<stripe, time_seconds>>: crossing
\* times for each stripe, a zero time, and requests the server refuses (no
\* time, a negative time, a stripe it does not know).
VelocityRequests ==
    { <<"left", Some(10 * Scale)>>, <<"left", Some(0)>>,
      <<"middle", Some(12 * Scale)>>,
      <<"right", Some(15 * Scale)>>, <<"right", Some(10 * Scale)>>,
      <<"left", None>>, <<"middle", Some(0 - Scale)>>, <<"top", Some(10 * Scale)>> }

\* The stripe named by a request to clear, one of them unknown to the server.
StripeNames == Stripes \cup {"top"}

\* All three stripe times are recorded.
AllTimesRecorded(cfg) ==
    /\ cfg.velocity.left_time_seconds # None
    /\ cfg.velocity.middle_time_seconds # None
    /\ cfg.velocity.right_time_seconds # None

VelocityInit ==
    /\ config \in VelocityConfigs
    /\ setup_file = None
    /\ display = SimulatorDisplay_init(TRUE)
    /\ now = StartTime * Scale
    /\ trace_op = Other
    /\ result = None
    /\ pinned = FALSE
    /\ paused_at = None

\* POST /api/velocity/setup
ApiVelocitySetup ==
    LET r == velocity_setup(config)
    IN  \E d \in _on_velocity_setup(display, r.config) :
            /\ config' = r.config
            /\ setup_file' = save_yaml(r.config)
            /\ display' = d
            /\ trace_op' = [Other EXCEPT !.op = "velocity_setup"]
            /\ result' = Some(r.response)
            /\ UNCHANGED <<now, pinned, paused_at>>

\* POST /api/velocity/time
ApiRecordVelocityTime ==
    \E request \in VelocityRequests :
        LET r == record_velocity_time(config, request[1], request[2])
        IN  /\ config' = r.config
            /\ setup_file' = IF r.response.status = "ok" THEN save_yaml(r.config)
                             ELSE setup_file
            /\ trace_op' = [Other EXCEPT !.op = "record_velocity_time"]
            /\ result' = Some(r.response)
            /\ UNCHANGED <<display, now, pinned, paused_at>>

\* DELETE /api/velocity/time/<stripe>
ApiClearVelocityTime ==
    \E stripe \in StripeNames :
        LET r == clear_velocity_time(config, stripe)
        IN  /\ config' = r.config
            /\ setup_file' = IF r.response.status = "ok" THEN save_yaml(r.config)
                             ELSE setup_file
            /\ trace_op' = [Other EXCEPT !.op = "clear_velocity_time"]
            /\ result' = Some(r.response)
            /\ UNCHANGED <<display, now, pinned, paused_at>>

VelocityNext ==
    \/ ApiVelocitySetup
    \/ ApiRecordVelocityTime
    \/ ApiClearVelocityTime
    \/ ApiSimulationSetup

VelocitySpec == VelocityInit /\ [][VelocityNext]_vars

(***************************************************************************)
(* The fit from the eigen-decomposition on: the eigenvalues, eigenvectors  *)
(* and linear coefficients are drawn from small sets, fit_ellipse is       *)
(* applied to them, and result holds what it returns.                      *)
(***************************************************************************)

\* n / 100 as a scaled float.
Hundredths(n) == (n * Scale) \div 100

\* Columns <<A, B, C>> of unit length: a circle, an axis-parallel ellipse, a
\* tilted ellipse and a negated ellipse (4AC - B^2 is positive for all
\* four), and a hyperbola.
EigenColumns ==
    { <<Hundredths(71), 0, Hundredths(71)>>,
      <<Hundredths(45), 0, Hundredths(89)>>,
      <<Hundredths(58), Hundredths(58), Hundredths(58)>>,
      <<Hundredths(-45), 0, Hundredths(-89)>>,
      <<Hundredths(71), 0, Hundredths(-71)>> }

\* The eigenvalues in the orders np.linalg.eig may give them.
EigenValueLists ==
    { <<Scale, 0 - 2 * Scale, 0 - 3 * Scale>>,
      <<0 - 3 * Scale, 0 - 2 * Scale, Scale>>,
      <<Scale, 0 - Scale, 2 * Scale>> }

\* a2 = <<D, E, F>>: a curve round (2, 2), its negation, and one with no
\* linear part.
LinearParts ==
    { <<Hundredths(-284), Hundredths(-284), Hundredths(284)>>,
      <<Hundredths(284), Hundredths(284), Hundredths(-284)>>,
      <<0, 0, Scale>> }

\* np.linalg.eig has returned; nothing is fitted yet.
FitInit ==
    /\ config = AppConfig(PointsNear, 6, 0, NotMeasured)
    /\ setup_file = None
    /\ display = SimulatorDisplay_init(TRUE)
    /\ now = StartTime * Scale
    /\ \E eigenvalues \in EigenValueLists, eigenvectors \in [1..3 -> EigenColumns],
          a2 \in LinearParts :
           trace_op = [Other EXCEPT !.op = "eig",
                                    !.arg = <<eigenvalues, eigenvectors, a2>>]
    /\ result = None
    /\ pinned = FALSE
    /\ paused_at = None

\* fit_ellipse(points) with five or more points, from np.linalg.eig on.
FitEllipse ==
    /\ trace_op.op = "eig"
    /\ result' = ellipse_from_eigen(trace_op.arg[1], trace_op.arg[2], trace_op.arg[3])
    /\ trace_op' = [trace_op EXCEPT !.op = "fit_ellipse"]
    /\ UNCHANGED <<config, setup_file, display, now, pinned, paused_at>>

FitNext == FitEllipse

FitSpec == FitInit /\ [][FitNext]_vars

(***************************************************************************)
(* Configuration files (config.py): save and load of the JSON file, over   *)
(* the fields the model keeps (ConfigSpec).  A JSON document is the dict   *)
(* of to_dict with each Optional float written as <<"null">> or            *)
(* <<"number", v>>; lists stay lists.                                      *)
(***************************************************************************)

\* SCREEN_SIZE_PRESETS: the names with dimensions, and the dimensions.
PresetNames == {"640x480", "vga", "xga", "hd", "720p", "fhd", "1080p", "4k", "2160p"}

SCREEN_SIZE_PRESETS(name) ==
    CASE name \in {"640x480", "vga"} -> <<640, 480>>
      [] name = "xga" -> <<1024, 768>>
      [] name \in {"hd", "720p"} -> <<1280, 720>>
      [] name \in {"fhd", "1080p"} -> <<1920, 1080>>
      [] name \in {"4k", "2160p"} -> <<3840, 2160>>

\* str.lower() on the names the model uses.
Lower(name) ==
    CASE name = "FHD" -> "fhd"
      [] name = "Custom" -> "custom"
      [] OTHER -> name

\* DisplayConfig.apply_screen_size_preset
apply_screen_size_preset(display_config) ==
    LET preset == Lower(display_config.screen_size)
    IN  IF preset \in PresetNames
        THEN [display_config EXCEPT !.screen_width = SCREEN_SIZE_PRESETS(preset)[1],
                                    !.screen_height = SCREEN_SIZE_PRESETS(preset)[2]]
        ELSE display_config

\* AppConfig(): the dataclass defaults.
AppConfigDefault ==
    [ calibration |-> [points |-> <<>>, is_complete |-> FALSE],
      display |-> [screen_size |-> "fhd", screen_width |-> 1920,
                   screen_height |-> 1080, screen_width_mm |-> 527],
      mount |-> [distance_to_screen_m |-> 5, latitude |-> 0],
      velocity |-> NotMeasured ]

\* json.dumps and json.loads of an Optional float.
JsonFromOptional(v) == IF v = None THEN <<"null">> ELSE <<"number", v[1]>>

OptionalFromJson(j) == IF j[1] = "null" THEN None ELSE Some(j[2])

json_dumps(dict) ==
    [dict EXCEPT !.velocity.left_time_seconds = JsonFromOptional(@),
                 !.velocity.middle_time_seconds = JsonFromOptional(@),
                 !.velocity.right_time_seconds = JsonFromOptional(@)]

json_loads(text) ==
    [text EXCEPT !.velocity.left_time_seconds = OptionalFromJson(@),
                 !.velocity.middle_time_seconds = OptionalFromJson(@),
                 !.velocity.right_time_seconds = OptionalFromJson(@)]

\* AppConfig.save: the text written to the file.
save(cfg) == json_dumps(to_dict(cfg))

\* AppConfig._apply_dict: every key of a section of data that is an
\* attribute of the section's object replaces the attribute.
_apply_dict(cfg, data) ==
    [ section \in DOMAIN cfg |->
        IF section \in DOMAIN data
        THEN [ key \in DOMAIN cfg[section] |->
                 IF key \in DOMAIN data[section]
                 THEN data[section][key]
                 ELSE cfg[section][key] ]
        ELSE cfg[section] ]

\* Loading with a missing file reported as an error.
load_missing_raises(file) ==
    IF file = None THEN [error |-> "FileNotFoundError"]
    ELSE LET cfg == _apply_dict(AppConfigDefault, json_loads(file[1]))
         IN  [cfg EXCEPT !.display = apply_screen_size_preset(cfg.display)]

\* Loading without the screen size preset applied.
load_as_written(file) ==
    IF file = None THEN AppConfigDefault
    ELSE _apply_dict(AppConfigDefault, json_loads(file[1]))

\* AppConfig.load: file is None where the path does not exist, else
\* Some(text).
load(file) ==
    IF file = None THEN AppConfigDefault
    ELSE LET cfg == _apply_dict(AppConfigDefault, json_loads(file[1]))
         IN  [cfg EXCEPT !.display = apply_screen_size_preset(cfg.display)]

\* Configurations to save: every screen size name with dimensions that
\* match the fhd preset or not, with and without points and measurements.
ConfigScreenSizes == {"fhd", "FHD", "vga", "custom", "Custom", "wide"}

ConfigDimensions == { <<1920, 1080>>, <<640, 480>>, <<300, 200>> }

ConfigsToSave ==
    { [ AppConfig(points, 6, latitude, velocity) EXCEPT
            !.display.screen_size = size,
            !.display.screen_width = dim[1],
            !.display.screen_height = dim[2] ] :
        points \in {<<>>, Points5}, latitude \in {0, 30},
        velocity \in {NotMeasured, Measured},
        size \in ConfigScreenSizes, dim \in ConfigDimensions }

ConfigInit ==
    /\ config \in ConfigsToSave
    /\ setup_file = None
    /\ display = SimulatorDisplay_init(TRUE)
    /\ now = StartTime * Scale
    /\ trace_op = Other
    /\ result = None
    /\ pinned = FALSE
    /\ paused_at = None

\* config.save(path)
ConfigSave ==
    /\ setup_file' = Some(save(config))
    /\ trace_op' = [Other EXCEPT !.op = "save"]
    /\ result' = None
    /\ UNCHANGED <<config, display, now, pinned, paused_at>>

\* loaded_config = AppConfig.load(path)
ConfigLoad ==
    /\ result' = Some(load(setup_file))
    /\ trace_op' = [Other EXCEPT !.op = "load"]
    /\ UNCHANGED <<config, setup_file, display, now, pinned, paused_at>>

\* The program goes on with the loaded configuration (main, line 240).
ConfigAdopt ==
    /\ result # None
    /\ config' = result[1]
    /\ trace_op' = [Other EXCEPT !.op = "adopt"]
    /\ result' = None
    /\ UNCHANGED <<setup_file, display, now, pinned, paused_at>>

ConfigNext ==
    \/ ConfigSave
    \/ ConfigLoad
    \/ ConfigAdopt

ConfigSpec == ConfigInit /\ [][ConfigNext]_vars

(***************************************************************************)
(* The rendering thread and a server thread (RaceSpec).  Application.run   *)
(* calls get_simulation_status from the main loop while Flask runs the     *)
(* request handlers on threads of its own; the display has no lock, so the *)
(* statements of a status call and of a clock command interleave.  Each    *)
(* step below is one statement (or a run of statements that touch no       *)
(* shared field), named by its line in display.py.  Under RaceSpec pinned  *)
(* holds the frame of the status call and paused_at that of the command;   *)
(* trace_op keeps the display both calls started from.                     *)
(***************************************************************************)

\* Lines 483-484 and 492-503: what status computes from the elapsed time it
\* read and from the trajectory fields.
StatusLocals(d, elapsed) ==
    LET total_distance == d.simulation_x_end - d.simulation_x_start
        total_time == _get_total_time(d)
        current_x == Min2(_x_from_elapsed(d, elapsed), ToFloat(d.simulation_x_end))
    IN  [ total_time |-> total_time,
          elapsed |-> elapsed,
          current_x |-> current_x,
          current_velocity |-> _velocity_from_elapsed(d, elapsed),
          progress |-> IF total_distance > 0
                       THEN Div(current_x - ToFloat(d.simulation_x_start),
                                ToFloat(total_distance)) * 100
                       ELSE 100 * Scale,
          remaining |-> Max2(0, total_time - elapsed),
          complete |-> current_x >= ToFloat(d.simulation_x_end) ]

\* Lines 509-519: the dict returned, with running read from the display.
StatusDict(d, locals) ==
    [ running |-> d.simulation_running,
      progress |-> Round1(locals.progress),
      elapsed_seconds |-> Round1(locals.elapsed),
      remaining_seconds |-> Round1(locals.remaining),
      total_seconds |-> Some(Round1(locals.total_time)),
      current_x |-> locals.current_x,
      current_velocity |-> Some(Round4(locals.current_velocity)),
      complete |-> locals.complete ]

\* The frame of a call that has not started: its name, its argument, the
\* line it is at, and its locals.
Frame0(name, arg) ==
    [ call |-> name, arg |-> arg, pc |-> "call", elapsed |-> 0,
      total_time |-> 0, locals |-> None ]

\* One step of get_simulation_status: <<frame, display, returned>>, where
\* returned is None until the call returns, Some(dict) when it returns, and
\* Some([error |-> ...]) when line 488 subtracts None.
status_step(f, d, t) ==
    CASE f.pc = "call" ->
           IF d.calibration_ellipse = None \/ d.simulation_x_start >= d.simulation_x_end
           THEN << [f EXCEPT !.pc = "done"], d,
                   Some([ running |-> FALSE, progress |-> 0, elapsed_seconds |-> 0,
                          remaining_seconds |-> 0, total_seconds |-> None,
                          current_x |-> ToFloat(d.simulation_x_start),
                          current_velocity |-> None, complete |-> FALSE ]) >>
           ELSE << [f EXCEPT !.pc = "487"], d, None >>
      [] f.pc = "487" ->
           IF d.simulation_running /\ d.simulation_start_time # None
           THEN << [f EXCEPT !.pc = "488"], d, None >>
           ELSE << [f EXCEPT !.pc = "490"], d, None >>
      [] f.pc = "488" ->
           IF d.simulation_start_time = None
           THEN << [f EXCEPT !.pc = "done"], d, Some([error |-> "TypeError"]) >>
           ELSE << [f EXCEPT !.pc = "492", !.elapsed = t - d.simulation_start_time[1]],
                   d, None >>
      [] f.pc = "490" ->
           << [f EXCEPT !.pc = "492", !.elapsed = d.simulation_elapsed], d, None >>
      [] f.pc = "492" ->
           LET locals == StatusLocals(d, f.elapsed)
           IN  << [f EXCEPT !.pc = IF locals.complete THEN "506" ELSE "510",
                            !.locals = Some(locals)], d, None >>
      [] f.pc = "506" ->
           << [f EXCEPT !.pc = "507"], [d EXCEPT !.simulation_running = FALSE], None >>
      [] f.pc = "507" ->
           << [f EXCEPT !.pc = "510"],
              [d EXCEPT !.simulation_elapsed = f.locals[1].total_time], None >>
      [] f.pc = "510" ->
           << [f EXCEPT !.pc = "done"], d, Some(StatusDict(d, f.locals[1])) >>

\* One step of seek_simulation(arg): <<frame, display>>.
seek_step(f, d, t) ==
    CASE f.pc = "call" ->
           << [f EXCEPT !.pc = "400",
                        !.elapsed = Max2(0, Min2(f.arg, _get_total_time(d)))], d >>
      [] f.pc = "400" ->
           IF d.simulation_running /\ d.simulation_start_time # None
           THEN << [f EXCEPT !.pc = "402"], d >>
           ELSE << [f EXCEPT !.pc = "405"], d >>
      [] f.pc = "402" ->
           << [f EXCEPT !.pc = "done"],
              [d EXCEPT !.simulation_start_time = Some(t - f.elapsed)] >>
      [] f.pc = "405" ->
           << [f EXCEPT !.pc = "done"], [d EXCEPT !.simulation_elapsed = f.elapsed] >>

\* One step of skip_simulation(arg).  The status call never clears
\* simulation_start_time, so line 377 finds it set.
skip_step(f, d, t) ==
    CASE f.pc = "call" ->
           << [f EXCEPT !.pc = "375", !.total_time = _get_total_time(d)], d >>
      [] f.pc = "375" ->
           IF d.simulation_running /\ d.simulation_start_time # None
           THEN << [f EXCEPT !.pc = "377"], d >>
           ELSE << [f EXCEPT !.pc = "386"], d >>
      [] f.pc = "377" ->
           << [f EXCEPT !.pc = "379"],
              [d EXCEPT !.simulation_start_time = Some(@[1] - f.arg)] >>
      [] f.pc = "379" ->
           << [f EXCEPT !.pc = "380", !.elapsed = t - d.simulation_start_time[1]], d >>
      [] f.pc = "380" ->
           << [f EXCEPT !.pc = "done"],
              IF f.elapsed < 0
              THEN [d EXCEPT !.simulation_start_time = Some(t)]
              ELSE IF f.elapsed > f.total_time
              THEN [d EXCEPT !.simulation_start_time = Some(t - f.total_time)]
              ELSE d >>
      [] f.pc = "386" ->
           << [f EXCEPT !.pc = "388"],
              [d EXCEPT !.simulation_elapsed = @ + f.arg] >>
      [] f.pc = "388" ->
           << [f EXCEPT !.pc = "done"],
              IF d.simulation_elapsed < 0
              THEN [d EXCEPT !.simulation_elapsed = 0]
              ELSE IF d.simulation_elapsed > f.total_time
              THEN [d EXCEPT !.simulation_elapsed = f.total_time]
              ELSE d >>

\* One step of stop_simulation().
stop_step(f, d, t) ==
    CASE f.pc = "call" ->
           IF d.simulation_running /\ d.simulation_start_time # None
           THEN << [f EXCEPT !.pc = "338"], d >>
           ELSE << [f EXCEPT !.pc = "339"], d >>
      [] f.pc = "338" ->
           << [f EXCEPT !.pc = "339"],
              [d EXCEPT !.simulation_elapsed = t - d.simulation_start_time[1]] >>
      [] f.pc = "339" ->
           << [f EXCEPT !.pc = "done"], [d EXCEPT !.simulation_running = FALSE] >>

\* One step of reset_simulation().
reset_step(f, d) ==
    CASE f.pc = "call" ->
           << [f EXCEPT !.pc = "344"], [d EXCEPT !.simulation_running = FALSE] >>
      [] f.pc = "344" ->
           << [f EXCEPT !.pc = "345"], [d EXCEPT !.simulation_start_time = None] >>
      [] f.pc = "345" ->
           << [f EXCEPT !.pc = "346"], [d EXCEPT !.simulation_elapsed = 0] >>
      [] f.pc = "346" ->
           << [f EXCEPT !.pc = "done"], reset_beep_state(d) >>

\* The trajectory 0..500 at 5 px/s (100 s), set up on a fitted conic.
RaceTrajectory ==
    setup_simulation(set_calibration_ellipse(SimulatorDisplay_init(TRUE),
                                             Some(FittedEllipse)),
                     0, 500, 5 * Scale, None)

\* Clock states the race starts from, at wall-clock time t: started 40 s
\* ago, started 150 s ago with no status request since (past the end),
\* paused at 40 s, and never started.
RaceDisplays(t) ==
    { start_simulation(RaceTrajectory, t - 40 * Scale),
      start_simulation(RaceTrajectory, t - 150 * Scale),
      seek_simulation(RaceTrajectory, 40 * Scale, t),
      RaceTrajectory }

\* The commands a server thread runs: <<name, argument>>.
RaceCommands ==
    { <<"seek", s * Scale>> : s \in {0, 30, 1000} }
        \cup { <<"skip", s * Scale>> : s \in {-200, 30, 200} }
        \cup { <<"stop", 0>>, <<"reset", 0>> }

RaceInit ==
    /\ config = AppConfig(Points5, 6, 0, NotMeasured)
    /\ setup_file = None
    /\ now = StartTime * Scale
    /\ display \in RaceDisplays(now)
    /\ \E c \in RaceCommands : paused_at = Frame0(c[1], c[2])
    /\ pinned = Frame0("status", 0)
    /\ trace_op = [op |-> "race", started_from |-> display]
    /\ result = None

\* The rendering thread runs one step of get_simulation_status.
RaceStatus ==
    /\ pinned.pc # "done"
    /\ LET r == status_step(pinned, display, now)
       IN  /\ pinned' = r[1]
           /\ display' = r[2]
           /\ result' = IF r[3] # None THEN r[3] ELSE result
    /\ UNCHANGED <<config, setup_file, now, trace_op, paused_at>>

\* The server thread runs one step of its command.
RaceSeek ==
    /\ paused_at.call = "seek" /\ paused_at.pc # "done"
    /\ LET r == seek_step(paused_at, display, now)
       IN  paused_at' = r[1] /\ display' = r[2]
    /\ UNCHANGED <<config, setup_file, now, trace_op, result, pinned>>

RaceSkip ==
    /\ paused_at.call = "skip" /\ paused_at.pc # "done"
    /\ LET r == skip_step(paused_at, display, now)
       IN  paused_at' = r[1] /\ display' = r[2]
    /\ UNCHANGED <<config, setup_file, now, trace_op, result, pinned>>

RaceStop ==
    /\ paused_at.call = "stop" /\ paused_at.pc # "done"
    /\ LET r == stop_step(paused_at, display, now)
       IN  paused_at' = r[1] /\ display' = r[2]
    /\ UNCHANGED <<config, setup_file, now, trace_op, result, pinned>>

RaceReset ==
    /\ paused_at.call = "reset" /\ paused_at.pc # "done"
    /\ LET r == reset_step(paused_at, display)
       IN  paused_at' = r[1] /\ display' = r[2]
    /\ UNCHANGED <<config, setup_file, now, trace_op, result, pinned>>

RaceNext ==
    \/ RaceStatus
    \/ RaceSeek
    \/ RaceSkip
    \/ RaceStop
    \/ RaceReset

RaceSpec == RaceInit /\ [][RaceNext]_vars

(***************************************************************************)
(* Properties of the simulation clock and of the status read model.        *)
(***************************************************************************)

\* A trajectory is configured: a curve model, x_start < x_end and a positive
\* total time.
Configured(d) == ~Degenerate(d) /\ _get_total_time(d) > 0

\* seconds clamped into [0, total_time] of the display.
Clamped(d, seconds) == Max2(0, Min2(seconds, _get_total_time(d)))

ClockCleared(d) ==
    /\ ~d.simulation_running
    /\ d.simulation_elapsed = 0
    /\ d.simulation_start_time = None

\* C1: in every reachable state of a configured trajectory, the stored
\* elapsed time and, while the clock runs, the implied elapsed time
\* now - start time both lie in [0, total_time].
C1_ElapsedWithinTotal ==
    Configured(display) =>
        /\ 0 <= display.simulation_elapsed
        /\ display.simulation_elapsed <= _get_total_time(display)
        /\ (display.simulation_running /\ display.simulation_start_time # None) =>
               /\ 0 <= now - display.simulation_start_time[1]
               /\ now - display.simulation_start_time[1] <= _get_total_time(display)

\* C2: completion is stable.  Once a status request has seen the elapsed
\* time reach total_time, every later status request made before a reset,
\* seek, skip or set-up reports complete = True, running = False and
\* elapsed_seconds = total_time, and finds the stored elapsed time pinned to
\* total_time.
C2_CompletionStable ==
    (trace_op.op = "status" /\ trace_op.after = "pinned" /\ Configured(display)) =>
        /\ result[1].complete
        /\ ~result[1].running
        /\ result[1].elapsed_seconds = Round1(_get_total_time(display))
        /\ display.simulation_elapsed = _get_total_time(display)

\* C3: seek is absolute and clamped.  With a curve model and x_start < x_end,
\* a status request right after seek(t) reports elapsed_seconds equal to t
\* clamped into [0, total_time] (rounded to one decimal, as every reported
\* time), whether the clock was running or paused and whatever the elapsed
\* time was before.
C3_SeekAbsoluteClamped ==
    (trace_op.op = "status" /\ trace_op.after = "seek" /\ ~Degenerate(display)) =>
        result[1].elapsed_seconds = Round1(Clamped(display, trace_op.arg))

\* A status request after a seek beyond the end of a running, configured clock.
C3_Witness ==
    /\ trace_op.op = "status" /\ trace_op.after = "seek"
    /\ Configured(display)
    /\ trace_op.was_running
    /\ trace_op.arg > _get_total_time(display)
    /\ result[1].elapsed_seconds = Round1(_get_total_time(display))

\* C4: skip clamps at both ends.  On a configured trajectory, the status
\* request right after a skip that carries the elapsed time past the end
\* reports complete = True, progress = 100 and elapsed_seconds = total_time,
\* and the one right after a skip by no more than minus the elapsed time
\* reports elapsed_seconds = 0.
C4_SkipClamps ==
    (trace_op.op = "status" /\ trace_op.after = "skip" /\ Configured(display)) =>
        /\ trace_op.reach = "over" =>
               /\ result[1].complete
               /\ result[1].progress = 100 * Scale
               /\ result[1].elapsed_seconds = Round1(_get_total_time(display))
        /\ trace_op.reach = "under" => result[1].elapsed_seconds = 0

\* C5: redundant clock commands are no-ops.  A start that meets a running
\* clock and a stop that meets a clock that is not running leave the
\* display, and so running, start time and stored elapsed time, unchanged.
C5_RedundantNoOps ==
    [][ ( \/ trace_op'.op = "start" /\ display.simulation_running
          \/ trace_op'.op = "stop" /\ ~display.simulation_running )
        => display' = display ]_vars

\* A start met a running clock whose start time a restart would have moved.
C5_Witness ==
    /\ trace_op.op = "start"
    /\ trace_op.was_running
    /\ display.simulation_running
    /\ display.simulation_start_time # Some(now - display.simulation_elapsed)

\* C6: pause and resume preserve the elapsed time.  A stop of a running
\* clock stores the elapsed time now - start time, and a start that follows,
\* however much later, leaves a running clock whose elapsed time is the one
\* the stop stored.
C6_PauseResume ==
    /\ (trace_op.op = "stop" /\ trace_op.was_running) =>
           /\ ~display.simulation_running
           /\ paused_at # None
           /\ display.simulation_elapsed = paused_at[1][1]
    /\ (trace_op.op = "start" /\ ~trace_op.was_running /\ trace_op.resumed # None) =>
           /\ display.simulation_running
           /\ display.simulation_start_time = Some(now - trace_op.resumed[1][1])
           /\ Elapsed(display, now) = trace_op.resumed[1][1]

\* A clock stopped at a positive elapsed time was started again at a later
\* wall-clock time.
C6_Witness ==
    /\ trace_op.op = "start"
    /\ ~trace_op.was_running
    /\ trace_op.resumed # None
    /\ trace_op.resumed[1][1] > 0
    /\ now > trace_op.resumed[1][2]

\* C7: after a reset, from whatever clock state, the clock is not running,
\* the stored elapsed time is 0, the start time is cleared and every beep
\* flag is cleared.
C7_ResetClears ==
    trace_op.op = "reset" => ClockCleared(display) /\ BeepsClear(display)

\* A reset met a running clock and beep flags that had been set.
C7_Witness ==
    /\ trace_op.op = "reset"
    /\ trace_op.was_running
    /\ ~trace_op.was_clear

\* C8: an accepted set-up resets the clock from any state: after it the
\* clock is not running, the stored elapsed time is 0, the start time and
\* the beep flags are cleared, and the status request right after it reports
\* elapsed_seconds = 0.
C8_SetupResets ==
    /\ trace_op.op = "setup" => ClockCleared(display) /\ BeepsClear(display)
    /\ (trace_op.op = "status" /\ trace_op.after = "setup") =>
           result[1].elapsed_seconds = 0

\* A status request right after a set-up that met a running clock and beep
\* flags that had been set, on a configured trajectory.
C8_Witness ==
    /\ trace_op.op = "status" /\ trace_op.after = "setup"
    /\ trace_op.was_running
    /\ ~trace_op.was_clear
    /\ Configured(display)

\* C9: an accepted set-up request returns total_seconds equal to the total
\* time of the trajectory it configured, the total_time seek and skip clamp
\* against.
C9_SetupTotal ==
    trace_op.op = "setup" =>
        result[1].total_seconds = Round1(_get_total_time(display))

\* C10: without a curve model, or with x_start >= x_end, a status request
\* returns running = False, progress = 0, elapsed_seconds = 0,
\* remaining_seconds = 0 and complete = False, whatever the clock state.
C10_DegenerateStatus ==
    (trace_op.op = "status" /\ Degenerate(display)) =>
        /\ result[1].running = FALSE
        /\ result[1].progress = 0
        /\ result[1].elapsed_seconds = 0
        /\ result[1].remaining_seconds = 0
        /\ result[1].complete = FALSE

\* A status request without a curve model while the clock is running at a
\* positive elapsed time.
C10_Witness ==
    /\ trace_op.op = "status"
    /\ Degenerate(display)
    /\ display.simulation_running
    /\ Elapsed(display, now) > 0

\* C11: with a curve model and x_start < x_end, every status request reports
\* a position with x_start <= current_x <= x_end and a progress in [0, 100].
C11_PositionWithinRange ==
    (trace_op.op = "status" /\ ~Degenerate(display)) =>
        /\ ToFloat(display.simulation_x_start) <= result[1].current_x
        /\ result[1].current_x <= ToFloat(display.simulation_x_end)
        /\ 0 <= result[1].progress
        /\ result[1].progress <= 100 * Scale

\* C12: after any sequence of click (add), update (absolute or relative),
\* delete and reset (clear) requests, the calibration point list of the
\* configuration, which the requests return, and the display's copy of it
\* are sorted by x ascending.
C12_PointsSorted ==
    /\ IsSortedByX(config.calibration.points)
    /\ IsSortedByX(display.calibration_points)

\* (x_end - x_start) / v for v > 0, and 0 for v <= 0.
ConstantTotal(d) ==
    IF d.simulation_pixels_per_second > 0
    THEN RoundDiv(ToFloat(d.simulation_x_end - d.simulation_x_start) * Scale,
                  d.simulation_pixels_per_second)
    ELSE 0

\* C13: the constant-velocity path.  A set-up with no velocity samples, or
\* fewer than 3, builds no lookup table and has total_time =
\* (x_end - x_start) / v for v > 0 and 0 for v <= 0; a status request right
\* after seek(t) on that path reports that total and the position
\* x_start + t' * v, t' the clamped t, cut at x_end; and with v = 5,
\* x_start = 0, x_end = 500 it reports total 100 s and, after seek(50),
\* x = 250 and progress = 50.0.
C13_ConstantVelocityPath ==
    /\ (trace_op.op = "setup_simulation" /\ trace_op.arg < 3) =>
           /\ display.simulation_lookup_xs = None
           /\ display.simulation_lookup_ts = None
           /\ display.simulation_lookup_vs = None
           /\ _get_total_time(display) = ConstantTotal(display)
    /\ ( /\ trace_op.op = "status" /\ trace_op.after = "seek"
         /\ ~Degenerate(display)
         /\ display.simulation_lookup_ts = None ) =>
           LET v == display.simulation_pixels_per_second
               t == Max2(0, Min2(trace_op.arg, ConstantTotal(display)))
           IN  /\ result[1].total_seconds = Some(Round1(ConstantTotal(display)))
               /\ result[1].current_x =
                      Min2(ToFloat(display.simulation_x_start)
                               + (t \div Scale) * v + RoundDiv((t % Scale) * v, Scale),
                           ToFloat(display.simulation_x_end))
               /\ ( /\ v = 5 * Scale
                    /\ display.simulation_x_start = 0
                    /\ display.simulation_x_end = 500
                    /\ trace_op.arg = 50 * Scale ) =>
                      /\ result[1].total_seconds = Some(100 * Scale)
                      /\ result[1].current_x = ToFloat(250)
                      /\ result[1].progress = 50 * Scale

\* The status request after seek(50) at 5 px/s over 0..500, no lookup table.
C13_Witness ==
    /\ trace_op.op = "status" /\ trace_op.after = "seek"
    /\ trace_op.arg = 50 * Scale
    /\ display.simulation_lookup_ts = None
    /\ display.simulation_pixels_per_second = 5 * Scale
    /\ display.simulation_x_start = 0
    /\ display.simulation_x_end = 500
    /\ result[1].current_x = ToFloat(250)
    /\ result[1].progress = 50 * Scale

\* Times at which the position is sampled: the grid times, the midpoints
\* between them, and the seek targets.
SampleTimes(d) ==
    LET ts == d.simulation_lookup_ts
    IN  { ts[k] : k \in 1..LookupSize }
        \cup { (ts[k] + ts[k + 1]) \div 2 : k \in 1..(LookupSize - 1) }
        \cup TrajSeeks

\* C14: the lookup table a set-up with three velocity samples builds has
\* cumulative times that never decrease over the grid, every step of them
\* is finite and non-negative because every fitted velocity is at least
\* 0.01 px/s, the position at time 0 is x_start, the position at total_time
\* is x_end, and the position never decreases as the time grows.
C14_LookupMonotone ==
    (display.simulation_lookup_ts # None /\ display.simulation_lookup_xs # None
         /\ display.simulation_lookup_vs # None) =>
        LET ts == display.simulation_lookup_ts
            vs == display.simulation_lookup_vs
        IN  /\ ts[1] = 0
            /\ \A k \in 1..(LookupSize - 1) : ts[k] <= ts[k + 1]
            /\ \A k \in 1..LookupSize : vs[k] >= RoundDiv(Scale, 100)
            /\ _get_total_time(display) = ts[LookupSize]
            /\ _x_from_elapsed(display, 0) = ToFloat(display.simulation_x_start)
            /\ _x_from_elapsed(display, _get_total_time(display))
                   = ToFloat(display.simulation_x_end)
            /\ \A t1 \in SampleTimes(display), t2 \in SampleTimes(display) :
                   t1 <= t2 =>
                       _x_from_elapsed(display, t1) <= _x_from_elapsed(display, t2)

\* A table whose fitted velocity was raised to the floor on part of the grid.
C14_Witness ==
    /\ display.simulation_lookup_ts # None
    /\ display.simulation_lookup_vs # None
    /\ display.simulation_x_start < display.simulation_x_end
    /\ \E k \in 1..LookupSize :
           display.simulation_lookup_vs[k] = RoundDiv(Scale, 100)
    /\ \E k \in 1..LookupSize :
           display.simulation_lookup_vs[k] > RoundDiv(Scale, 100)

(***************************************************************************)
(* Properties of the arc evaluator (ArcSpec).                              *)
(***************************************************************************)

\* The number of points of the display's list with y < center_y.
AboveCount(d) ==
    Cardinality({ k \in 1..Len(d.calibration_points) :
                      ToFloat(d.calibration_points[k][2])
                          < d.calibration_ellipse[1].center_y })

\* The root the majority rule asks for at x: the smaller one with an empty
\* list or more than half of the points above the centre, else the larger.
MajorityRoot(d, x) ==
    LET roots == EllipseRoots(d, x)[1]
    IN  IF d.calibration_points = <<>>
           \/ 2 * AboveCount(d) > Len(d.calibration_points)
        THEN Min2(roots[1], roots[2])
        ELSE Max2(roots[1], roots[2])

\* C15: wherever the conic has real roots, the arc evaluator returns the
\* smaller root (upper arc) exactly when more than half of the calibration
\* points have y < center_y, and the larger root (lower arc) otherwise; with
\* an empty point list it returns the smaller root.
C15_ArcByMajority ==
    /\ \A x \in ArcXs :
           EllipseRoots(display, x) # None =>
               _ellipse_y_from_x(display, x, None) = Some(MajorityRoot(display, x))
    /\ (trace_op.op = "arc" /\ result.y # None) =>
           result.y = Some(MajorityRoot(display, result.current_x))

\* The lower arc was returned for five points of which two lie above.
C15_Witness ==
    /\ trace_op.op = "arc"
    /\ result.branch = "lower"
    /\ Len(display.calibration_points) = 5
    /\ AboveCount(display) = 2

\* Exactly half of a non-empty point list lies above the centre.
Balanced(d) ==
    /\ d.calibration_ellipse # None
    /\ d.calibration_points # <<>>
    /\ 2 * AboveCount(d) = Len(d.calibration_points)

\* C16 as stated: with exactly half of the points above the centre, the
\* evaluator returns the upper arc.
C16_TieUpper ==
    (trace_op.op = "arc" /\ Balanced(display) /\ result.branch # "none") =>
        result.branch = "upper"

\* C16: with exactly half of the points above the centre, the evaluator
\* returns the lower arc (the larger root), at every x with two real roots.
C16_TieLower ==
    /\ (trace_op.op = "arc" /\ Balanced(display) /\ result.branch # "none") =>
           /\ result.branch = "lower"
           /\ result.current_y = Max2(EllipseRoots(display, result.current_x)[1][1],
                                      EllipseRoots(display, result.current_x)[1][2])
    /\ Balanced(display) =>
           \A x \in ArcXs : Branch(display, x) \in {"none", "lower"}

\* A balanced list of six points was evaluated where the roots differ.
C16_Witness ==
    /\ trace_op.op = "arc"
    /\ Balanced(display)
    /\ Len(display.calibration_points) = 6
    /\ result.branch = "lower"

\* C17: for a fixed point list and conic the evaluator returns the same
\* branch at every x: any two x with two distinct roots give the same
\* branch, and every status request gives the branch the first request
\* since the points and the conic were set gave.
C17_ArcStable ==
    /\ \A x1 \in ArcXs, x2 \in ArcXs :
           (Branch(display, x1) # "none" /\ Branch(display, x2) # "none") =>
               Branch(display, x1) = Branch(display, x2)
    /\ (trace_op.op = "arc" /\ pinned # None /\ result.branch # "none") =>
           result.branch = pinned[1][1]

\* The tilted ellipse was evaluated at an x other than that of the first
\* request, with points on both sides of the centre.
C17_Witness ==
    /\ trace_op.op = "arc"
    /\ pinned # None
    /\ result.branch # "none"
    /\ result.current_x # pinned[1][2]
    /\ display.calibration_ellipse = Some(ArcTilted)
    /\ Len(display.calibration_points) = 6

(***************************************************************************)
(* Properties of the set-up request (SetupSpec).                           *)
(***************************************************************************)

\* C19: a set-up request made while the screen width (mm or px) or the
\* distance to the screen is not positive returns an error that carries no
\* velocity, and leaves the display (trajectory range, velocity, lookup
\* table and clock) exactly as it was.
C19_InvalidGeometryRejected ==
    [][ (ApiSimulationSetup /\ InvalidGeometry(config)) =>
            /\ result' = Some([status |-> "error"])
            /\ display' = display ]_vars

\* A set-up request was refused for its geometry alone, with a trajectory
\* set up before and its clock running.
C19_Witness ==
    /\ trace_op.op = "setup_rejected"
    /\ Len(config.calibration.points) >= 4
    /\ InvalidGeometry(config)
    /\ display.simulation_running
    /\ display.simulation_x_start < display.simulation_x_end

(***************************************************************************)
(* Properties of the configuration files (ConfigSpec).                     *)
(***************************************************************************)

\* A load has just read the file that save wrote for the current config.
LoadedOwnFile ==
    /\ trace_op.op = "load"
    /\ setup_file = Some(save(config))
    /\ result # None

\* C20 as stated: loading the file a configuration was saved to yields a
\* configuration equal to it in every field.
C20_RoundTrip ==
    LoadedOwnFile => result[1] = config

\* C20: loading the file a configuration was saved to restores every field
\* but screen_width and screen_height; those two are restored when
\* screen_size, in lower case, names no preset with dimensions (it is
\* "custom" or unknown), and are the preset's dimensions when it does.
C20_RoundTripUpToPreset ==
    LoadedOwnFile =>
        LET loaded == result[1]
            preset == Lower(config.display.screen_size)
        IN  /\ loaded.mount = config.mount
            /\ loaded.calibration = config.calibration
            /\ loaded.velocity = config.velocity
            /\ loaded.display.screen_size = config.display.screen_size
            /\ loaded.display.screen_width_mm = config.display.screen_width_mm
            /\ <<loaded.display.screen_width, loaded.display.screen_height>> =
                   IF preset \in PresetNames THEN SCREEN_SIZE_PRESETS(preset)
                   ELSE <<config.display.screen_width, config.display.screen_height>>

\* A configuration with measurements and points, named fhd but 300 px wide,
\* was saved and loaded, and came back 1920 px wide.
C20_Witness ==
    /\ LoadedOwnFile
    /\ config.display.screen_size = "fhd"
    /\ config.display.screen_width = 300
    /\ config.velocity = Measured
    /\ config.calibration.points = Points5
    /\ result[1].display.screen_width = 1920

\* C21: load() of a path that does not exist returns the default
\* configuration (latitude 0, distance 5 m, the fhd screen, no points, no
\* measurements), whatever the program's configuration is, and no error.
C21_LoadMissingGivesDefault ==
    (trace_op.op = "load" /\ setup_file = None) =>
        /\ result # None
        /\ DOMAIN result[1] = {"mount", "display", "calibration", "velocity"}
        /\ result[1] = AppConfigDefault
        /\ result[1].mount.latitude = 0
        /\ result[1].mount.distance_to_screen_m = 5
        /\ result[1].display.screen_size = "fhd"
        /\ result[1].calibration.points = <<>>
        /\ ~result[1].velocity.is_complete

\* A load met no file while the program held another configuration.
C21_Witness ==
    /\ trace_op.op = "load"
    /\ setup_file = None
    /\ result = Some(AppConfigDefault)
    /\ config # AppConfigDefault
    /\ config.calibration.points = Points5

(***************************************************************************)
(* Properties of the rendering thread racing a server thread (RaceSpec).   *)
(***************************************************************************)

\* The command of frame f run as a whole on display d.
RunCommand(f, d, t) ==
    CASE f.call = "seek" -> seek_simulation(d, f.arg, t)
      [] f.call = "skip" -> skip_simulation(d, f.arg, t)
      [] f.call = "stop" -> stop_simulation(d, t)
      [] f.call = "reset" -> reset_simulation(d)

\* The two serial orders from display d: what status returns and the
\* display both calls leave.
StatusFirst(f, d, t) ==
    LET r == get_simulation_status(d, t)
    IN  [ status |-> r.status, display |-> RunCommand(f, r.display, t) ]

CommandFirst(f, d, t) ==
    LET r == get_simulation_status(RunCommand(f, d, t), t)
    IN  [ status |-> r.status, display |-> r.display ]

BothReturned == trace_op.op = "race" /\ pinned.pc = "done" /\ paused_at.pc = "done"

\* C22: when a status call and a seek, skip, stop or reset have both
\* returned, whatever the interleaving of their statements, the status call
\* returned what it returns before or after the whole command, and the
\* display is the one that one of the two serial orders leaves.
C22_ClockOperationsAtomic ==
    BothReturned =>
        LET a == StatusFirst(paused_at, trace_op.started_from, now)
            b == CommandFirst(paused_at, trace_op.started_from, now)
        IN  /\ result \in {Some(a.status), Some(b.status)}
            /\ display \in {a.display, b.display}

\* C23: one clock representation is authoritative.  A running clock always
\* has its start time set, and every status request of a configured
\* trajectory reports the elapsed time now - start time when it meets a
\* running clock and the stored elapsed time when it meets a stopped one.
C23_OneClockRepresentation ==
    /\ [](display.simulation_running => display.simulation_start_time # None)
    /\ [][ (trace_op'.op = "status" /\ ~Degenerate(display)) =>
               result'[1].elapsed_seconds =
                   Round1(IF display.simulation_running
                          THEN now - display.simulation_start_time[1]
                          ELSE display.simulation_elapsed) ]_vars

\* A status request met a running clock whose stored elapsed time differs
\* from now - start time, and reported the latter.
C23_Witness ==
    /\ trace_op.op = "status"
    /\ display.simulation_running
    /\ result[1].elapsed_seconds = Round1(now - display.simulation_start_time[1])
    /\ result[1].elapsed_seconds # Round1(display.simulation_elapsed)

(***************************************************************************)
(* Properties of the fitted curve during calibration (CurveSpec).          *)
(***************************************************************************)

\* C24: after every add, update, delete and clear of a calibration point
\* the ellipse the display holds is a fit of the display's current point
\* list: it is absent below 5 points, and otherwise absent (the fit failed)
\* or fitted to exactly the points the display holds.
C24_CurveNeverStale ==
    trace_op.op \in {"click", "reset_calibration", "delete_point", "update_point"} =>
        /\ Len(display.calibration_points) < 5 => display.calibration_ellipse = None
        /\ display.calibration_ellipse # None =>
               display.calibration_ellipse[1].fitted_to
                   = PointBag(display.calibration_points)
        /\ display.calibration_ellipse \in fit_ellipse(display.calibration_points)

\* A point of a list of five was moved, and the display holds a fit of the
\* list as it is after the move, which is no longer the list first fitted.
C24_Witness ==
    /\ trace_op.op = "update_point"
    /\ result[1].status = "ok"
    /\ Len(display.calibration_points) = 5
    /\ display.calibration_ellipse # None
    /\ display.calibration_points[5] = <<20, 40>>
    /\ display.calibration_points[1] = <<-1, -1>>

\* The trajectory parameters of a display: the range, the base velocity,
\* the three lookup arrays and the total time.
TrajectoryOf(d) ==
    << d.simulation_x_start, d.simulation_x_end, d.simulation_pixels_per_second,
       d.simulation_lookup_xs, d.simulation_lookup_ts, d.simulation_lookup_vs,
       d.simulation_total_time >>

\* C25: the trajectory parameters change only in a set-up.  Every step that
\* is not an accepted set-up request (start, stop, reset, skip, seek,
\* status, a frame, a mode change, a rejected set-up) leaves x_start, x_end,
\* the base velocity, the three lookup arrays and total_time as they were.
C25_TrajectoryImmutable ==
    [][ trace_op'.op # "setup" => TrajectoryOf(display') = TrajectoryOf(display) ]_vars

\* A seek moved the clock of a trajectory that has a lookup table.
C25_Witness ==
    /\ trace_op.op = "seek"
    /\ display.simulation_lookup_ts # None
    /\ display.simulation_lookup_xs # None
    /\ display.simulation_x_start < display.simulation_x_end
    /\ Elapsed(display, now) > 0

(***************************************************************************)
(* Properties of the calibration requests (CalSpec).                       *)
(***************************************************************************)

\* C26: the index a click returns is a position of the list as it is after
\* the sort, and the point there is the point clicked, also when the list
\* holds other points with the same x or the same point already; the same
\* holds of the index add_calibration_point returns for the display's list.
C26_NewIndexFindsPoint ==
    /\ trace_op.op = "click" =>
           /\ result[1].new_index \in 0..(Len(config.calibration.points) - 1)
           /\ config.calibration.points[result[1].new_index + 1]
                  = <<result[1].x, result[1].y>>
    /\ \A x \in CalXs, y \in CalYs :
           LET r == add_calibration_point(display, x, y)
           IN  /\ r.index \in 0..(Len(r.display.calibration_points) - 1)
               /\ r.display.calibration_points[r.index + 1] = <<x, y>>

\* A click added a point behind a different point with the same x.
C26_Witness ==
    /\ trace_op.op = "click"
    /\ result[1].new_index >= 1
    /\ config.calibration.points[result[1].new_index][1] = result[1].x
    /\ config.calibration.points[result[1].new_index][2] # result[1].y

(***************************************************************************)
(* More properties of the arc evaluator (ArcSpec).                         *)
(***************************************************************************)

\* C27: where the conic has no intersection at current_x (negative
\* discriminant, or C of magnitude below 1e-10) the evaluator returns None
\* and the status request reports the conic's center_y as current_y.
C27_NoIntersectionFallsBack ==
    (trace_op.op = "arc" /\ display.calibration_ellipse # None
         /\ EllipseRoots(display, result.current_x) = None) =>
        /\ result.y = None
        /\ result.current_y = display.calibration_ellipse[1].center_y

\* The circle was asked at an x left of it: no root, current_y is center_y.
C27_Witness ==
    /\ trace_op.op = "arc"
    /\ display.calibration_ellipse = Some(ArcCircle)
    /\ result.current_x = ToFloat(-5)
    /\ result.y = None
    /\ result.current_y = ToFloat(10)

\* w / t of a recorded crossing time, for the stripe width of the configuration.
StripeVelocity(time) == Div(ToFloat(config.velocity.stripe_width_pixels), time[1])

\* The three stripe velocities attached to w/2, screen_width/2 and
\* screen_width - w/2.
StripeProfile ==
    LET w == ToFloat(config.velocity.stripe_width_pixels)
        screen_width == ToFloat(config.display.screen_width)
    IN  << <<RoundDiv(w, 2), StripeVelocity(config.velocity.left_time_seconds)>>,
           <<RoundDiv(screen_width, 2), StripeVelocity(config.velocity.middle_time_seconds)>>,
           <<screen_width - RoundDiv(w, 2),
             StripeVelocity(config.velocity.right_time_seconds)>> >>

\* The largest of the three stripe velocities.
FastestStripe ==
    Max2(StripeProfile[1][2], Max2(StripeProfile[2][2], StripeProfile[3][2]))

\* A set-up has just taken the measured path with three positive times.
MeasuredSetupDone ==
    /\ trace_op.op = "setup"
    /\ UseMeasuredVelocity(config)
    /\ config.velocity.left_time_seconds[1] > 0
    /\ config.velocity.middle_time_seconds[1] > 0
    /\ config.velocity.right_time_seconds[1] > 0

\* C28: a set-up made with three recorded (positive) crossing times and
\* stripe width w uses v = w / t for each stripe, attached to x = w/2,
\* screen_width/2 and screen_width - w/2 (the velocity table is the parabola
\* through these three samples, floored at 0.01), and reports and keeps the
\* largest of the three as pixels_per_second; for w = 100 and times 10, 12
\* and 15 s that is 10 px/s.
C28_MeasuredVelocityIsMax ==
    MeasuredSetupDone =>
        /\ result[1].pixels_per_second = FastestStripe
        /\ display.simulation_pixels_per_second = FastestStripe
        /\ \A k \in 1..LookupSize :
               display.simulation_lookup_vs[k] =
                   Max2(PolyFitEval(StripeProfile, display.simulation_lookup_xs[k]),
                        RoundDiv(Scale, 100))
        /\ (config.velocity = Measured) => result[1].pixels_per_second = 10 * Scale

C28_Witness ==
    /\ MeasuredSetupDone
    /\ config.velocity = Measured
    /\ result[1].pixels_per_second = 10 * Scale
    /\ display.simulation_pixels_per_second = 10 * Scale

\* C30: from a configuration with no measurements, whatever times are
\* recorded and cleared, velocity.is_complete is true exactly when all three
\* stripe times are recorded, and a set-up that has built the measured
\* velocity table had all three times.
C30_CompleteIffAllRecorded ==
    /\ config.velocity.is_complete <=> AllTimesRecorded(config)
    /\ (trace_op.op = "setup" /\ display.simulation_lookup_vs # None)
           => AllTimesRecorded(config)

C30_Witness ==
    /\ trace_op.op = "clear_velocity_time"
    /\ result[1].status = "ok"
    /\ result[1].stripe = "left"
    /\ config.velocity.left_time_seconds = None
    /\ config.velocity.middle_time_seconds # None
    /\ config.velocity.right_time_seconds # None
    /\ ~config.velocity.is_complete

\* C29: every model fit_ellipse returns has 4AC - B^2 > 0 for its conic
\* coefficients and semi_major >= semi_minor.
C29_ReturnedFitIsEllipse ==
    (trace_op.op = "fit_ellipse" /\ result # None) =>
        /\ 4 * Mul(result[1].coeffs[1], result[1].coeffs[3])
               - Mul(result[1].coeffs[2], result[1].coeffs[2]) > 0
        /\ result[1].semi_major >= result[1].semi_minor

\* A fit whose axes came out in the other order is returned, put right.
C29_Witness ==
    /\ trace_op.op = "fit_ellipse"
    /\ result # None
    /\ result[1].coeffs[1] < 0
    /\ result[1].semi_major > result[1].semi_minor

====
